---- MODULE Spec2Model ----
(***************************************************************************)
(* Radiation-packet propagation core of artis (rpkt.cc, boundary.cc).      *)
(*                                                                         *)
(* Lengths, times, frequencies and optical depths are even integers so     *)
(* that the two half-moves of a sub-step are exact.  The speed of light is *)
(* one length unit per time unit.  A packet travels along the x axis of a  *)
(* row of cells; the cell faces are taken at their positions at tstart     *)
(* (the expansion of the grid during one sub-step is below the length      *)
(* unit), and the comoving frequency falls by one unit per unit of path.   *)
(***************************************************************************)
EXTENDS Integers, Sequences, FiniteSets, TLC

VARIABLES linelist, pkt, t2, max_path_step, nesc, pc, flown, retry, h,
          kappa_rpkt_cont, phixslist, modelgrid, globals,
          estimators, threads, build

vars == <<linelist, pkt, t2, max_path_step, nesc, pc, flown, retry, h,
          kappa_rpkt_cont, phixslist, modelgrid, globals,
          estimators, threads, build>>

(***************************************************************************)
(* Bounds of the model.                                                    *)
(***************************************************************************)
MaxLines == 3        \* longest line list drawn in the search specification
MaxNuSteps == 3      \* line frequencies drawn there are 4, 6, .. 2 * (MaxNuSteps + 1)

Nus == {2 * k : k \in 2..(MaxNuSteps + 1)}
NuDomain == {2 * k : k \in 1..(MaxNuSteps + 2)}
GarbageNus == NuDomain \cup {0}

(***************************************************************************)
(* The sorted line list: ordered by descending frequency, index from 0.    *)
(***************************************************************************)
nlines == Len(linelist)

linelist_nu(i) == linelist[i + 1]

\* element, ion and upper level of line i (linelist[i].elementindex, .ionindex,
\* .upperlevelindex): a different triple for every line
linelist_elementindex(i) == i % 2

linelist_ionindex(i) == i \div 2

linelist_upperlevelindex(i) == i + 1

IsSortedDescending(ll) == \A i \in 1..(Len(ll) - 1) : ll[i] >= ll[i + 1]

LineLists == {ll \in UNION {[1..n -> Nus] : n \in 1..MaxLines} : IsSortedDescending(ll)}

\* operator<(linelist_entry, double): the comparison handed to std::lower_bound
line_less(i, nu_cmf) == ~(linelist_nu(i) <= nu_cmf)

\* std::lower_bound over &linelist[first] .. &linelist[last]: halve the length
\* while it is positive; a range of non-positive length returns first unread.
RECURSIVE lower_bound_loop(_, _, _)
lower_bound_loop(first, len, nu_cmf) ==
  IF len > 0
    THEN LET half == len \div 2
             middle == first + half
         IN IF line_less(middle, nu_cmf)
              THEN lower_bound_loop(middle + 1, len - half - 1, nu_cmf)
              ELSE lower_bound_loop(first, half, nu_cmf)
    ELSE first

lower_bound(first, last, nu_cmf) == lower_bound_loop(first, last - first, nu_cmf)

closest_transition_noshortcut(nu_cmf, next_trans) ==
  LET left == next_trans
      right == nlines - 1
  IN IF nu_cmf < linelist_nu(right) THEN -1
     ELSE IF left > right THEN -1
     ELSE IF nu_cmf >= linelist_nu(left) THEN left
     ELSE lower_bound(next_trans, nlines, nu_cmf)

closest_transition_offbyone(nu_cmf, next_trans) ==
  LET left == next_trans
      right == nlines - 1
  IN IF nu_cmf < linelist_nu(right) THEN -1
     ELSE IF left > right THEN -1
     ELSE IF left > 0 THEN left
     ELSE IF nu_cmf >= linelist_nu(0) THEN 0
     ELSE lower_bound(next_trans, nlines, nu_cmf) - 1

\* closest_transition: the next line redder than nu_cmf, -1 if none
closest_transition(nu_cmf, next_trans) ==
  LET left == next_trans
      right == nlines - 1
  IN IF nu_cmf < linelist_nu(right) THEN -1
     ELSE IF left > right THEN -1
     ELSE IF left > 0 THEN left
     ELSE IF nu_cmf >= linelist_nu(0) THEN 0
     ELSE lower_bound(next_trans, nlines, nu_cmf)

\* closest_transition_empty: re-seat next_trans after an empty or grey cell.
\* The two sentinel assignments do not return, so the comparison below reads
\* linelist[left] also for left > nlines - 1; garbage is the value found there.
closest_transition_empty(p, garbage) ==
  LET left == p.next_trans
      right == nlines - 1
      nt1 == IF p.nu_cmf < linelist_nu(right) THEN nlines + 1 ELSE p.next_trans
      nt2 == IF left > right THEN nlines + 1 ELSE nt1
      nu_left == IF left <= right THEN linelist_nu(left) ELSE garbage
      matchindex == IF p.nu_cmf >= nu_left THEN left
                    ELSE lower_bound(nt2, nlines, p.nu_cmf)
  IN [next_trans |-> matchindex,
      outofbounds |-> left > right,
      badrange |-> (~(p.nu_cmf >= nu_left)) /\ nt2 > nlines]

(***************************************************************************)
(* Grid: a row of cells along x, cell c between get_cellcoordmin(c) and    *)
(* get_cellcoordmax(c); each cell maps to a model-grid cell, the value     *)
(* get_npts_model marking an empty cell.                                   *)
(***************************************************************************)
HalfWidth == 2

wid_init == 2 * HalfWidth

\* model-grid index of the cells 0, 1, 2, 3: empty, normal, normal, thick
cellmgi == <<3, 0, 1, 2>>

thick == <<0, 0, 1>>

ncoordgrid == Len(cellmgi)

ngrid == ncoordgrid

get_npts_model == Len(thick)

rmax == (ncoordgrid * wid_init) \div 2

get_cell_modelgridindex(cellindex) == cellmgi[cellindex + 1]

modelgrid_thick(mgi) == thick[mgi + 1]

get_cellcoordmin(cellindex) == cellindex * wid_init - rmax

get_cellcoordmax(cellindex) == get_cellcoordmin(cellindex) + wid_init

get_cellcoordpointnum(cellindex) == cellindex

get_coordcellindexincrement == 1

BoundaryTolerance == 0   \* the 10 cm tolerance is below the length unit

HugeTime == 1000         \* stands for 1.e99

DBL_MAX == 100000        \* stands for std::numeric_limits<double>::max()

CLIGHT_PROP == 1

Half(d) == d \div 2

(***************************************************************************)
(* boundary_cross: distance to the next face of the current cell and the   *)
(* cell behind it; writes pkt.last_cross when it picks an inner face.      *)
(***************************************************************************)
\* one pass of the "checking inside cell boundary" loop, for one value of flip
OutsideCheck(p, flip, last_cross) ==
  LET cellindex == p.where
      direction == IF flip = 1 THEN "POS_X" ELSE "NEG_X"
      invdirection == IF flip = 0 THEN "POS_X" ELSE "NEG_X"
      cellindexstride == IF flip = 1 THEN -get_coordcellindexincrement
                                     ELSE get_coordcellindexincrement
      isoutside_thisside ==
        IF flip = 1 THEN p.pos < get_cellcoordmin(cellindex) - BoundaryTolerance
                    ELSE p.pos > get_cellcoordmax(cellindex) + BoundaryTolerance
      vel == p.dir * CLIGHT_PROP
  IN IF isoutside_thisside /\ last_cross # direction
       THEN IF vel > 0
              THEN IF \/ (get_cellcoordpointnum(cellindex) = ncoordgrid - 1 /\ cellindexstride > 0)
                      \/ (get_cellcoordpointnum(cellindex) = 0 /\ cellindexstride < 0)
                     THEN [returned |-> TRUE, snext |-> -99, pkt_last_cross |-> p.last_cross,
                           last_cross |-> last_cross]
                     ELSE [returned |-> TRUE, snext |-> p.where + cellindexstride,
                           pkt_last_cross |-> invdirection, last_cross |-> last_cross]
              ELSE [returned |-> FALSE, snext |-> -1, pkt_last_cross |-> p.last_cross,
                    last_cross |-> direction]
       ELSE [returned |-> FALSE, snext |-> -1, pkt_last_cross |-> p.last_cross,
             last_cross |-> last_cross]

ShortestTime_no_exclusion(p, last_cross) ==
  LET cellindex == p.where
      vel == p.dir * CLIGHT_PROP
      t_coordmaxboundary == (get_cellcoordmax(cellindex) - p.pos) * vel
      t_coordminboundary == (get_cellcoordmin(cellindex) - p.pos) * vel
      r0 == [choice |-> "0", time |-> HugeTime, snext |-> -1, pkt_last_cross |-> p.last_cross]
      r1 == IF t_coordmaxboundary > 0 /\ t_coordmaxboundary < r0.time
              THEN IF get_cellcoordpointnum(cellindex) = ncoordgrid - 1
                     THEN [r0 EXCEPT !.choice = "POS_X", !.time = t_coordmaxboundary,
                                     !.snext = -99]
                     ELSE [r0 EXCEPT !.choice = "POS_X", !.time = t_coordmaxboundary,
                                     !.snext = p.where + get_coordcellindexincrement,
                                     !.pkt_last_cross = "POS_X"]
              ELSE r0
      r2 == IF t_coordminboundary > 0 /\ t_coordminboundary < r1.time
              THEN IF get_cellcoordpointnum(cellindex) = 0
                     THEN [r1 EXCEPT !.choice = "NEG_X", !.time = t_coordminboundary,
                                     !.snext = -99]
                     ELSE [r1 EXCEPT !.choice = "NEG_X", !.time = t_coordminboundary,
                                     !.snext = p.where - get_coordcellindexincrement,
                                     !.pkt_last_cross = "NEG_X"]
              ELSE r1
  IN r2

\* the "shortest +ve time" loop; snext = -1 stands for the caller's unset snext
ShortestTime(p, last_cross) ==
  LET cellindex == p.where
      vel == p.dir * CLIGHT_PROP
      t_coordmaxboundary == (get_cellcoordmax(cellindex) - p.pos) * vel
      t_coordminboundary == (get_cellcoordmin(cellindex) - p.pos) * vel
      r0 == [choice |-> "0", time |-> HugeTime, snext |-> -1, pkt_last_cross |-> p.last_cross]
      r1 == IF t_coordmaxboundary > 0 /\ t_coordmaxboundary < r0.time /\ last_cross # "NEG_X"
              THEN IF get_cellcoordpointnum(cellindex) = ncoordgrid - 1
                     THEN [r0 EXCEPT !.choice = "POS_X", !.time = t_coordmaxboundary,
                                     !.snext = -99]
                     ELSE [r0 EXCEPT !.choice = "POS_X", !.time = t_coordmaxboundary,
                                     !.snext = p.where + get_coordcellindexincrement,
                                     !.pkt_last_cross = "POS_X"]
              ELSE r0
      r2 == IF t_coordminboundary > 0 /\ t_coordminboundary < r1.time /\ last_cross # "POS_X"
              THEN IF get_cellcoordpointnum(cellindex) = 0
                     THEN [r1 EXCEPT !.choice = "NEG_X", !.time = t_coordminboundary,
                                     !.snext = -99]
                     ELSE [r1 EXCEPT !.choice = "NEG_X", !.time = t_coordminboundary,
                                     !.snext = p.where - get_coordcellindexincrement,
                                     !.pkt_last_cross = "NEG_X"]
              ELSE r1
  IN r2

boundary_cross(p) ==
  LET c0 == OutsideCheck(p, 0, p.last_cross)
      c1 == OutsideCheck(p, 1, c0.last_cross)
      st == ShortestTime(p, c1.last_cross)
  IN IF c0.returned
       THEN [distance |-> 0, snext |-> c0.snext, last_cross |-> c0.pkt_last_cross]
     ELSE IF c1.returned
       THEN [distance |-> 0, snext |-> c1.snext, last_cross |-> c1.pkt_last_cross]
     ELSE [distance |-> CLIGHT_PROP * st.time, snext |-> st.snext,
           last_cross |-> st.pkt_last_cross]

change_cell_no_escape_time(p, snext) ==
  IF snext = -99
    THEN [p EXCEPT !.escape_type = p.type, !.type = "TYPE_ESCAPE"]
    ELSE [p EXCEPT !.where = snext]

\* change_cell: take a packet across a boundary, or out of the grid
change_cell(p, snext) ==
  IF snext = -99
    THEN [p EXCEPT !.escape_type = p.type, !.escape_time = p.prop_time,
                   !.type = "TYPE_ESCAPE"]
    ELSE [p EXCEPT !.where = snext]

change_cell_nesc(n, snext) == IF snext = -99 THEN n + 1 ELSE n

EnergyPerNu == 2        \* e_cmf / nu_cmf of the packets of the model

\* x / doppler_packet_nucmf_on_nurf(p) for a packet flying in direction dir:
\* the factor is 1 at the resolution of the model, so the quotient is kept
\* as the comoving value together with the direction the factor was taken for
divide_by_doppler(x, dir) == [cmf |-> x, dir |-> dir]

(***************************************************************************)
(* Packet moves.                                                           *)
(***************************************************************************)
\* move_pkt: advance the position; the comoving frequency and energy are the
\* rest-frame ones times the Doppler factor at the new position, which lowers
\* nu_cmf by one unit per unit of path and keeps e_cmf / nu_cmf
move_pkt(p, distance) ==
  [p EXCEPT !.pos = p.pos + p.dir * distance, !.nu_cmf = p.nu_cmf - distance,
            !.e_cmf = p.e_cmf - EnergyPerNu * distance]

\* move_pkt_withtime: move_pkt and advance the packet's clock
move_pkt_withtime(p, distance) ==
  [move_pkt(p, distance) EXCEPT !.prop_time = p.prop_time + distance \div CLIGHT_PROP]

(***************************************************************************)
(* Opacities.  Optical depths are counted in units in which the continuum  *)
(* opacity of a cell of the propagation model is MainKappa.total per unit  *)
(* length.  A double is a natural number up to DBL_MAX, Infinity or NaN;   *)
(* sums and products saturate at Infinity as IEEE arithmetic does.         *)
(***************************************************************************)
NaN == -1

Infinity == DBL_MAX + 1

\* half of the largest double, rounded up: it is finite, adding it to itself
\* overflows and adding a small number to it does not
Big == DBL_MAX \div 2 + 1

isfinite(x) == x >= 0 /\ x <= DBL_MAX

fadd(a, b) ==
  IF a = NaN \/ b = NaN THEN NaN
  ELSE IF a + b > DBL_MAX THEN Infinity
  ELSE a + b

fmul(a, b) ==
  IF a = NaN \/ b = NaN THEN NaN
  ELSE IF a = 0 \/ b = 0 THEN IF a = Infinity \/ b = Infinity THEN NaN ELSE 0
  ELSE IF a > DBL_MAX \div b THEN Infinity
  ELSE a * b

doppler_packet_nucmf_on_nurf == 1

\* get_kappagrey(mgi) * get_rho(mgi) of the thick cell
kappagrey_rho == 4

\* the continuum opacities of the cells of the propagation model
MainKappa == [total |-> 4, es |-> 2, ff |-> 1, bf |-> 1]

\* the bound-free continua, sorted by ascending edge frequency
nbfcontinua == 3

CacheTolerance == 10000     \* 1 / 1e-4

\* a frequency at which one frequency unit is half the cache tolerance
NuRef == 2 * CacheTolerance

allcont_nu_edge(i) == IF i = 0 THEN 2 ELSE NuRef + 2 * (i - 1)

allcont_element(i) == i % 2

allcont_ion(i) == i \div 2

allcont_level(i) == i

get_phixsupperlevel(element, ion, level) == level + 1

\* what the model grid holds of a cell for the continuum opacity: SIGMA_T *
\* nne, the value of the free-free formula, and for every continuum whether
\* the species counts (present), whether the level is populated and the
\* frequency inside the cross-section table (populated), and the product
\* nnlevel * sigma_bf * probability * corrfactor (contr)
Channel(present, populated, contr) ==
  [present |-> present, populated |-> populated, contr |-> contr]

AbsentChannel == Channel(FALSE, TRUE, 1)

MainCell ==
  [thomson |-> MainKappa.es, freefree |-> MainKappa.ff,
   boundfree |-> [i \in 1..nbfcontinua |->
                    IF i = 1 THEN Channel(TRUE, TRUE, MainKappa.bf) ELSE AbsentChannel]]

MainGrid == [mgi \in 0..(get_npts_model - 1) |-> MainCell]

MainGlobals == [do_r_lc |-> TRUE, opacity_case |-> 4]

\* the cache before the first call
NoKappa ==
  [nu |-> 0, modelgridindex |-> -1, recalculate_required |-> TRUE,
   total |-> 0, es |-> 0, ff |-> 0, bf |-> 0, ffheating |-> 0]

ff_scale == 100000

\* calculate_kappa_ff: the free-free opacity, fatal if it is not finite
calculate_kappa_ff(modelgridindex, nu) ==
  LET kappa_ff == modelgrid[modelgridindex].freefree
  IN [value |-> kappa_ff,
      abort |-> IF nu <= 0 THEN "assert_always(nu > 0.)"
                ELSE IF ~isfinite(kappa_ff) THEN "kappa_ff is non-infinite"
                ELSE "none"]

\* the second loop of calculate_kappa_bf_gammacontr: the continua from i on
RECURSIVE kappa_bf_fill(_, _, _)
kappa_bf_fill_after_break(i, kappa_bf_sum, sums) ==
  IF i < nbfcontinua
    THEN kappa_bf_fill(i + 1, kappa_bf_sum, sums)
    ELSE [value |-> kappa_bf_sum, kappa_bf_sum |-> sums, abort |-> "none"]

\* get the sum reached so far
kappa_bf_fill(i, kappa_bf_sum, sums) ==
  IF i < nbfcontinua
    THEN kappa_bf_fill(i + 1, kappa_bf_sum, [sums EXCEPT ![i + 1] = kappa_bf_sum])
    ELSE [value |-> kappa_bf_sum, kappa_bf_sum |-> sums, abort |-> "none"]

\* the first loop of calculate_kappa_bf_gammacontr, from continuum i on
RECURSIVE kappa_bf_loop(_, _, _, _, _)
kappa_bf_loop(modelgridindex, nu, i, kappa_bf_sum, sums) ==
  IF i < nbfcontinua
    THEN LET ch == modelgrid[modelgridindex].boundfree[i + 1]
             added == fadd(kappa_bf_sum, ch.contr)
         IN IF ch.present
              THEN IF nu < allcont_nu_edge(i)
                     THEN kappa_bf_fill(i, kappa_bf_sum, sums)
                   ELSE IF ch.populated
                     THEN IF ~isfinite(ch.contr)
                            THEN [value |-> kappa_bf_sum, kappa_bf_sum |-> sums,
                                  abort |-> "non-finite contribution to kappa_bf_contr"]
                            ELSE kappa_bf_loop(modelgridindex, nu, i + 1, added,
                                               [sums EXCEPT ![i + 1] = added])
                   ELSE kappa_bf_loop(modelgridindex, nu, i + 1, kappa_bf_sum,
                                      [sums EXCEPT ![i + 1] = kappa_bf_sum])
              ELSE kappa_bf_loop(modelgridindex, nu, i + 1, kappa_bf_sum,
                                 [sums EXCEPT ![i + 1] = kappa_bf_sum])
    ELSE kappa_bf_fill(i, kappa_bf_sum, sums)

\* calculate_kappa_bf_gammacontr: the bound-free opacity; sums is the
\* kappa_bf_sum array of the thread's phixslist
calculate_kappa_bf_gammacontr(modelgridindex, nu, sums) ==
  kappa_bf_loop(modelgridindex, nu, 0, 0, sums)

\* the three conditions under which the cached values are taken as they are
kappa_cache_valid_any_nu(kappa, modelgridindex, nu_cmf) ==
  /\ modelgridindex = kappa.modelgridindex
  /\ ~kappa.recalculate_required

kappa_cache_valid(kappa, modelgridindex, nu_cmf) ==
  /\ modelgridindex = kappa.modelgridindex
  /\ ~kappa.recalculate_required
  /\ (IF kappa.nu > nu_cmf THEN kappa.nu - nu_cmf ELSE nu_cmf - kappa.nu) * CacheTolerance
       < nu_cmf

KappaRecord(kappa, sums, abort, recalculated) ==
  [kappa |-> kappa, kappa_bf_sum |-> sums, abort |-> abort, recalculated |-> recalculated]

\* the stores at the end of calculate_kappa_rpkt_cont and the test of the total
kappa_store(kappa, sums, modelgridindex, nu_cmf, sigma, kappa_ff, kappa_bf, kappa_ffheating) ==
  LET stored == [nu |-> nu_cmf, modelgridindex |-> modelgridindex,
                 recalculate_required |-> FALSE,
                 total |-> fadd(fadd(sigma, kappa_bf), kappa_ff),
                 es |-> sigma, ff |-> kappa_ff, bf |-> kappa_bf,
                 ffheating |-> kappa_ffheating]
  IN IF isfinite(stored.total) THEN KappaRecord(stored, sums, "none", TRUE)
     ELSE IF isfinite(stored.es)
       THEN KappaRecord([stored EXCEPT !.ff = 0, !.bf = 0, !.total = stored.es],
                        sums, "none", TRUE)
     ELSE KappaRecord(stored, sums, "non-finite kappa_rpkt_cont.total", TRUE)

\* the opacities of opacity_case 4
kappa_case4(kappa, sums, modelgridindex, nu_cmf) ==
  LET ffr == calculate_kappa_ff(modelgridindex, nu_cmf)
      bfr == calculate_kappa_bf_gammacontr(modelgridindex, nu_cmf, sums)
  IN IF ffr.abort # "none" THEN KappaRecord(kappa, sums, ffr.abort, TRUE)
     ELSE IF bfr.abort # "none" THEN KappaRecord(kappa, bfr.kappa_bf_sum, bfr.abort, TRUE)
     ELSE kappa_store(kappa, bfr.kappa_bf_sum, modelgridindex, nu_cmf,
                      modelgrid[modelgridindex].thomson, ffr.value, bfr.value, ffr.value)

\* the opacities of the other opacity cases
kappa_othercase(kappa, sums, modelgridindex, nu_cmf) ==
  LET ffr == calculate_kappa_ff(modelgridindex, nu_cmf)
  IN IF ffr.abort # "none" THEN KappaRecord(kappa, sums, ffr.abort, TRUE)
     ELSE kappa_store(kappa, sums, modelgridindex, nu_cmf, 0, fmul(ff_scale, ffr.value), 0, 0)

\* calculate_kappa_rpkt_cont: the thread's cache kappa and its kappa_bf_sum
\* array after the call for packet p
calculate_kappa_rpkt_cont(p, kappa, sums) ==
  LET modelgridindex == get_cell_modelgridindex(p.where)
  IN IF modelgridindex = get_npts_model
       THEN KappaRecord(kappa, sums, "assert_always(modelgridindex != get_npts_model)", FALSE)
     ELSE IF modelgrid_thick(modelgridindex) = 1
       THEN KappaRecord(kappa, sums, "assert_always(thick != 1)", FALSE)
     ELSE IF kappa_cache_valid(kappa, modelgridindex, p.nu_cmf)
       THEN KappaRecord(kappa, sums, "none", FALSE)
     ELSE IF ~globals.do_r_lc
       THEN kappa_store(kappa, sums, modelgridindex, p.nu_cmf, 0, 0, 0, 0)
     ELSE IF globals.opacity_case = 4
       THEN kappa_case4(kappa, sums, modelgridindex, p.nu_cmf)
     ELSE kappa_othercase(kappa, sums, modelgridindex, p.nu_cmf)

\* Sobolev optical depth of line lineindex (already clamped at 0)
LineTau == <<16, 0, 8>>

tau_line(lineindex) == LineTau[(lineindex % Len(LineTau)) + 1]

\* CLIGHT * prop_time * (nu_cmf / nu_trans - 1): path on which nu_cmf falls to nu_trans
line_distance(nu_cmf, nu_trans) == nu_cmf - nu_trans

reduce_below_not(abort_dist) == abort_dist

\* edist_new = abort_dist * (1 - 2e-8): the next representable length below abort_dist
reduce_below(abort_dist) == IF abort_dist > 0 THEN abort_dist - 2 ELSE 0

(***************************************************************************)
(* get_event: distance to the next physical event, walking a shadow packet *)
(* st along the line list.  writes lists every value assigned to the       *)
(* shadow's next_trans, cands the candidate lines, passed the lines flown  *)
(* past (optical depth added, line estimator updated).                     *)
(***************************************************************************)
get_event_rewind_two(nt) == nt - 2

get_event_rewind_none(nt) == nt

\* next_trans -= 1: back up one line, the line was not reached
get_event_rewind(nt) == nt - 1

get_event_commit_shadow(p, dummypkt) == dummypkt

tau_cont_from_start(kap_cont, abort_dist, dist) == kap_cont * abort_dist

\* the continuum optical depth from the shadow packet to the abort boundary,
\* when no line is left
tau_cont_to_abort(kap_cont, abort_dist, dist) == kap_cont * (abort_dist - dist)

\* pkt_ptr->next_trans = dummypkt_ptr->next_trans: all that get_event copies
\* from the shadow packet to the caller's packet
get_event_commit(p, dummypkt) == [p EXCEPT !.next_trans = dummypkt.next_trans]

\* the macro-atom state get_event stakes on the caller's packet for line lineindex
get_event_mastate(p, lineindex) ==
  [p EXCEPT !.mastate = [element |-> linelist_elementindex(lineindex),
                         ion |-> linelist_ionindex(lineindex),
                         level |-> linelist_upperlevelindex(lineindex),
                         activatingline |-> lineindex]]

\* what get_event hands back: the distance, the event type, the caller's
\* packet afterwards, and the record of the walk
EventRecord(edist, rpkt_eventtype, p, st, exit) ==
  [edist |-> edist, rpkt_eventtype |-> rpkt_eventtype, pkt |-> p,
   next_trans |-> p.next_trans, activatingline |-> p.mastate.activatingline,
   writes |-> st.writes, cands |-> st.cands, passed |-> st.passed, exit |-> exit,
   kappa |-> st.kr.kappa, kappa_bf_sum |-> st.kr.kappa_bf_sum, abort |-> st.kr.abort,
   moves |-> st.moves, nu_cmf_abort |-> st.nu_cmf_abort]

RECURSIVE get_event_loop(_, _, _, _, _, _)
get_event_loop(p, tau_rnd, abort_dist, nu_cmf_abort, kap_cont, st) ==
  LET lineindex == closest_transition(st.dummypkt.nu_cmf, st.dummypkt.next_trans)
  IN IF lineindex >= 0
       THEN LET nu_trans == linelist_nu(lineindex)
                d1 == [st.dummypkt EXCEPT !.next_trans = lineindex + 1]
                d2 == [d1 EXCEPT !.next_trans = get_event_rewind(d1.next_trans)]
                st1 == [st EXCEPT !.dummypkt = d1, !.writes = Append(st.writes, d1.next_trans),
                                  !.cands = Append(st.cands, lineindex)]
                st2 == [st1 EXCEPT !.dummypkt = d2, !.writes = Append(st1.writes, d2.next_trans)]
                ldist == IF d1.nu_cmf <= nu_trans THEN 0
                         ELSE line_distance(d1.nu_cmf, nu_trans)
                tau_cont == kap_cont * ldist
            IN IF tau_rnd - st.tau > tau_cont
                 THEN IF nu_trans < nu_cmf_abort
                        THEN EventRecord(DBL_MAX, "none", get_event_commit(p, d2), st2,
                                         "abort_boundary")
                      ELSE IF tau_rnd - st.tau > tau_cont + tau_line(lineindex)
                        THEN get_event_loop(p, tau_rnd, abort_dist, nu_cmf_abort, kap_cont,
                               [st1 EXCEPT !.dummypkt = move_pkt_withtime(d1, ldist),
                                           !.moves = Append(st.moves,
                                                       move_pkt_withtime(d1, ldist).nu_cmf),
                                           !.tau = st.tau + tau_cont + tau_line(lineindex),
                                           !.dist = st.dist + ldist,
                                           !.passed = Append(st.passed, lineindex)])
                      ELSE LET edist0 == st.dist + ldist
                           IN EventRecord(IF edist0 >= abort_dist THEN reduce_below(abort_dist)
                                          ELSE edist0,
                                          "RPKT_EVENTTYPE_BB",
                                          get_event_commit(get_event_mastate(p, lineindex), d1),
                                          st1, "boundbound")
                 ELSE EventRecord(st.dist + (tau_rnd - st.tau) \div kap_cont,
                                  "RPKT_EVENTTYPE_CONT", get_event_commit(p, d2), st2,
                                  "continuum_before_line")
       ELSE LET d1 == [st.dummypkt EXCEPT !.next_trans = nlines + 1]
                st1 == [st EXCEPT !.dummypkt = d1, !.writes = Append(st.writes, d1.next_trans)]
                tau_cont == tau_cont_to_abort(kap_cont, abort_dist, st.dist)
                leaves == tau_rnd - st.tau > tau_cont
            IN EventRecord(IF leaves THEN DBL_MAX
                           ELSE st.dist + (tau_rnd - st.tau) \div kap_cont,
                           IF leaves THEN "none" ELSE "RPKT_EVENTTYPE_CONT",
                           get_event_commit(p, d1), st1, "no_line")

get_event(p, tau_rnd, abort_dist) ==
  LET kr == calculate_kappa_rpkt_cont(p, kappa_rpkt_cont, phixslist)
      dummypkt_abort == move_pkt_withtime(move_pkt_withtime(p, Half(abort_dist)),
                                          Half(abort_dist))
      nu_cmf_abort == dummypkt_abort.nu_cmf
      kap_cont == kr.kappa.total * doppler_packet_nucmf_on_nurf
      st == [dummypkt |-> p, tau |-> 0, dist |-> 0, moves |-> <<>>,
             nu_cmf_abort |-> nu_cmf_abort,
             writes |-> <<>>, cands |-> <<>>, passed |-> <<>>, kr |-> kr]
  IN IF kr.abort # "none" THEN EventRecord(0, "none", p, st, "abort")
     ELSE get_event_loop(p, tau_rnd, abort_dist, nu_cmf_abort, kap_cont, st)

(***************************************************************************)
(* Event handlers.                                                         *)
(***************************************************************************)
\* cross_prod, dot and vec_norm on vectors along the coordinate axes
cross_prod(v1, v2) ==
  <<v1[2] * v2[3] - v2[2] * v1[3], v1[3] * v2[1] - v2[3] * v1[1],
    v1[1] * v2[2] - v2[1] * v1[2]>>

dot(x, y) == x[1] * y[1] + x[2] * y[2] + x[3] * y[3]

vec_len(x) == CHOOSE l \in 0..(dot(x, x)) : l * l = dot(x, x)

vec_norm(x) == <<x[1] \div vec_len(x), x[2] \div vec_len(x), x[3] \div vec_len(x)>>

\* the packet's direction as a vector: the packets of the model fly along x
dir_vector(dir) == <<dir, 0, 0>>

\* the reset polarisation direction of emitt_rpkt
emitt_pol_dir(dir) ==
  LET pol1 == cross_prod(dir_vector(dir), <<0, 0, 1>>)
      pol2 == IF dot(pol1, pol1) < 1 THEN cross_prod(dir_vector(dir), <<0, 1, 0>>)
              ELSE pol1
  IN vec_norm(pol2)

emitt_rpkt_keeps_nu_rf(p, newdir) ==
  [p EXCEPT !.type = "TYPE_RPKT", !.last_cross = "NONE", !.dir = newdir,
            !.nu_cmf = IF newdir = p.dir THEN p.nu_cmf ELSE p.nu_cmf + wid_init,
            !.stokes = <<1, 0, 0>>, !.pol_dir = emitt_pol_dir(newdir)]

emitt_rpkt_old_doppler(p, newdir) ==
  [p EXCEPT !.type = "TYPE_RPKT", !.last_cross = "NONE", !.dir = newdir,
            !.nu_rf = divide_by_doppler(p.nu_cmf, p.dir),
            !.e_rf = divide_by_doppler(p.e_cmf, p.dir),
            !.stokes = <<1, 0, 0>>, !.pol_dir = emitt_pol_dir(newdir)]

\* emitt_rpkt: an r-packet with a new direction newdir, all cell crossings
\* allowed again, rest-frame frequency and energy for the new direction and
\* the polarisation reset
emitt_rpkt(p, newdir) ==
  [p EXCEPT !.type = "TYPE_RPKT", !.last_cross = "NONE", !.dir = newdir,
            !.nu_rf = divide_by_doppler(p.nu_cmf, newdir),
            !.e_rf = divide_by_doppler(p.e_cmf, newdir),
            !.stokes = <<1, 0, 0>>, !.pol_dir = emitt_pol_dir(newdir)]

\* escat_rpkt: coherent electron scattering into newdir
escat_rpkt(p, newdir) == emitt_rpkt(p, newdir)

rpkt_event_thickcell(p, newdir) ==
  LET p1 == emitt_rpkt(p, newdir)
  IN [p1 EXCEPT !.em_pos = p1.pos, !.em_time = p1.prop_time]

rpkt_event_boundbound(p) ==
  [p EXCEPT !.absorptiontype = p.mastate.activatingline, !.absorptionfreq = p.nu_rf,
            !.absorptiondir = p.dir, !.type = "TYPE_MA"]

\* std::lower_bound over kappa_bf_sum[first] .. kappa_bf_sum[first + len - 1]
\* for the value rand4 / 4
RECURSIVE kappa_bf_lower_bound(_, _, _, _)
kappa_bf_lower_bound(sums, first, len, rand4) ==
  IF len > 0
    THEN LET half == len \div 2
             middle == first + half
         IN IF 4 * sums[middle + 1] < rand4
              THEN kappa_bf_lower_bound(sums, middle + 1, len - half - 1, rand4)
              ELSE kappa_bf_lower_bound(sums, first, half, rand4)
    ELSE first

\* the continuum in which the bound-free absorption occurs; zrand2 counts
\* quarters.  The search leaves out the last element of kappa_bf_sum.
select_continuum(kappa, sums, zrand2) ==
  kappa_bf_lower_bound(sums, 0, nbfcontinua - 1, zrand2 * kappa.bf)

continuum_process_inclusive(kappa, zrand) ==
  LET dopplerfactor == doppler_packet_nucmf_on_nurf
      kappa_cont == kappa.total * dopplerfactor
      sigma == kappa.es * dopplerfactor
      kappa_ff == kappa.ff * dopplerfactor
      kappa_bf == kappa.bf * dopplerfactor
  IN IF zrand * kappa_cont <= 4 * sigma THEN "es"
     ELSE IF zrand * kappa_cont <= 4 * (sigma + kappa_ff) THEN "ff"
     ELSE IF zrand * kappa_cont <= 4 * (sigma + kappa_ff + kappa_bf) THEN "bf"
     ELSE "none"

\* which continuum process happens; zrand counts quarters: the uniform draw
\* is zrand / 4
continuum_process(kappa, zrand) ==
  LET dopplerfactor == doppler_packet_nucmf_on_nurf
      kappa_cont == kappa.total * dopplerfactor
      sigma == kappa.es * dopplerfactor
      kappa_ff == kappa.ff * dopplerfactor
      kappa_bf == kappa.bf * dopplerfactor
  IN IF zrand * kappa_cont < 4 * sigma THEN "es"
     ELSE IF zrand * kappa_cont < 4 * (sigma + kappa_ff) THEN "ff"
     ELSE IF zrand * kappa_cont < 4 * (sigma + kappa_ff + kappa_bf) THEN "bf"
     ELSE "none"

ContinuumRecord(p, abort, process, allcontindex) ==
  [pkt |-> p, abort |-> abort, process |-> process, allcontindex |-> allcontindex]

\* the bound-free branch of rpkt_event_continuum; zrand3 counts quarters
continuum_boundfree(p, kappa, sums, rnd) ==
  LET nu == p.nu_cmf
      p1 == [p EXCEPT !.absorptiontype = -2]
      allcontindex == select_continuum(kappa, sums, rnd.zrand2)
      nu_edge == allcont_nu_edge(allcontindex)
      element == allcont_element(allcontindex)
      ion == allcont_ion(allcontindex)
      level == allcont_level(allcontindex)
  IN IF sums[nbfcontinua] # kappa.bf
       THEN ContinuumRecord(p1, "assert_always(kappa_bf_sum[nbfcontinua - 1] == kappa_bf_inrest)",
                            "bf", -1)
     ELSE IF ~(allcontindex < nbfcontinua)
       THEN ContinuumRecord(p1, "assert_always(allcontindex < nbfcontinua)", "bf", allcontindex)
     ELSE IF rnd.zrand3 * nu < 4 * nu_edge
       THEN ContinuumRecord([p1 EXCEPT !.type = "TYPE_MA",
                                       !.mastate = [element |-> element, ion |-> ion + 1,
                                                    level |-> get_phixsupperlevel(element, ion, level),
                                                    activatingline |-> -99]],
                            "none", "bf", allcontindex)
     ELSE ContinuumRecord([p1 EXCEPT !.type = "TYPE_KPKT"], "none", "bf", allcontindex)

\* rpkt_event_continuum with scattered as the packet after an electron scattering
continuum_event(p, kappa, sums, rnd, scattered) ==
  LET process == continuum_process(kappa, rnd.zrand)
  IN IF process = "es" THEN ContinuumRecord(scattered, "none", "es", -1)
     ELSE IF process = "ff"
       THEN ContinuumRecord([p EXCEPT !.type = "TYPE_KPKT", !.absorptiontype = -1],
                            "none", "ff", -1)
     ELSE IF process = "bf" THEN continuum_boundfree(p, kappa, sums, rnd)
     ELSE ContinuumRecord(p, "could not continuum process", "none", -1)

rpkt_event_continuum_reset(p, kappa, sums, rnd) ==
  continuum_event(p, kappa, sums, rnd,
                  [escat_rpkt(p, rnd.newdir) EXCEPT !.em_pos = p.pos, !.em_time = p.prop_time,
                                                    !.next_trans = 0])

\* rpkt_event_continuum: kappa is the thread's opacity cache, sums its
\* kappa_bf_sum array
rpkt_event_continuum(p, kappa, sums, rnd) ==
  continuum_event(p, kappa, sums, rnd,
                  [escat_rpkt(p, rnd.newdir) EXCEPT !.em_pos = p.pos, !.em_time = p.prop_time])

(***************************************************************************)
(* do_rpkt_step: one sub-step of an r-packet.  rnd holds the random draws  *)
(* of the event handlers and the value an out-of-range read returns.       *)
(* The result names the packet and escape counter afterwards, the return   *)
(* value, the branch taken (abort names a fatal exit) and what was         *)
(* computed on the way.                                                    *)
(***************************************************************************)
MinDist(a, b) == IF a < b THEN a ELSE b

NoEvent == [edist |-> DBL_MAX, rpkt_eventtype |-> "none", pkt |-> <<>>, next_trans |-> 0,
            activatingline |-> 0, writes |-> <<>>, cands |-> <<>>, passed |-> <<>>,
            exit |-> "not_called", kappa |-> kappa_rpkt_cont, kappa_bf_sum |-> phixslist,
            abort |-> "none", moves |-> <<>>, nu_cmf_abort |-> 0]

StepRecord(p, n, ret, branch, abort, bc, sdist, snext, tdist, edist, find_nextline, ge, cte, upd) ==
  [pkt |-> p, nesc |-> n, ret |-> ret, branch |-> branch, abort |-> abort,
   bc |-> bc, sdist |-> sdist, snext |-> snext, tdist |-> tdist, edist |-> edist,
   find_nextline |-> find_nextline, get_event |-> ge, cte |-> cte, update_estimators |-> upd]

same_cell_same_type_strict(p, mgi, oldmgi) ==
  p.type = "TYPE_RPKT" /\ mgi = oldmgi

\* the value do_rpkt_step returns after a cell change or an event
same_cell_same_type(p, mgi, oldmgi) ==
  p.type = "TYPE_RPKT" /\ (mgi = get_npts_model \/ mgi = oldmgi)

\* which of the three branches of do_rpkt_step is entered
select_branch(sdist, tdist, edist) ==
  IF (sdist < tdist) /\ (sdist < edist) THEN "boundary"
  ELSE IF (edist < sdist) /\ (edist < tdist) THEN "event"
  ELSE IF (tdist < sdist) /\ (tdist < edist) THEN "time"
  ELSE "abort"

cap_path_step_keep_snext(p, bc, maxstep) ==
  IF bc.distance > maxstep THEN [sdist |-> maxstep, snext |-> bc.snext]
                           ELSE [sdist |-> bc.distance, snext |-> bc.snext]

\* sdist and snext after the max_path_step cap
cap_path_step(p, bc, maxstep) ==
  IF bc.distance > maxstep THEN [sdist |-> maxstep, snext |-> p.where]
                           ELSE [sdist |-> bc.distance, snext |-> bc.snext]

\* the J increment radfield::update_estimators makes for a segment
radfield_update_estimators(modelgridindex, distance_e_cmf, nu) == distance_e_cmf

update_estimators_any_cell(p, distance, kappa) ==
  LET cellindex == p.where
      modelgridindex == get_cell_modelgridindex(cellindex)
      distance_e_cmf == distance * p.e_cmf
      nu == p.nu_cmf
  IN [mgi |-> modelgridindex, distance |-> distance, e_cmf |-> p.e_cmf, nu_cmf |-> nu,
      returned_early |-> FALSE,
      J |-> radfield_update_estimators(modelgridindex, distance_e_cmf, nu),
      ffheatingestimator |-> fmul(distance_e_cmf, kappa.ffheating),
      kappa_modelgridindex |-> kappa.modelgridindex]

\* update_estimators: what one call adds to the estimators of the packet's
\* cell (nothing in an empty cell), with the arguments it was called with
\* and the cell the per-thread opacity cache it reads was computed for
update_estimators(p, distance, kappa) ==
  LET cellindex == p.where
      modelgridindex == get_cell_modelgridindex(cellindex)
      distance_e_cmf == distance * p.e_cmf
      nu == p.nu_cmf
  IN IF modelgridindex = get_npts_model
       THEN [mgi |-> modelgridindex, distance |-> distance, e_cmf |-> p.e_cmf, nu_cmf |-> nu,
             returned_early |-> TRUE, J |-> 0, ffheatingestimator |-> 0,
             kappa_modelgridindex |-> kappa.modelgridindex]
       ELSE [mgi |-> modelgridindex, distance |-> distance, e_cmf |-> p.e_cmf, nu_cmf |-> nu,
             returned_early |-> FALSE,
             J |-> radfield_update_estimators(modelgridindex, distance_e_cmf, nu),
             ffheatingestimator |-> fmul(distance_e_cmf, kappa.ffheating),
             kappa_modelgridindex |-> kappa.modelgridindex]

step_boundary_reseat_always(p, n, oldmgi, sdist, snext, find_nextline, garbage, kappa) ==
  LET p1 == move_pkt_withtime(p, Half(sdist))
      upd == <<update_estimators(p1, sdist, kappa)>>
      p2 == move_pkt_withtime(p1, Half(sdist))
      p3 == IF snext # p2.where THEN change_cell(p2, snext) ELSE p2
      n3 == IF snext # p2.where THEN change_cell_nesc(n, snext) ELSE n
      mgi == get_cell_modelgridindex(p3.where)
      call == find_nextline
      r == closest_transition_empty(p3, garbage)
      p4 == IF call THEN [p3 EXCEPT !.next_trans = r.next_trans] ELSE p3
  IN [pkt |-> p4, nesc |-> n3, ret |-> same_cell_same_type(p4, mgi, oldmgi),
      cte |-> IF call THEN <<r>> ELSE <<>>, update_estimators |-> upd]

\* the boundary branch
step_boundary(p, n, oldmgi, sdist, snext, find_nextline, garbage, kappa) ==
  LET p1 == move_pkt_withtime(p, Half(sdist))
      upd == <<update_estimators(p1, sdist, kappa)>>
      p2 == move_pkt_withtime(p1, Half(sdist))
      p3 == IF snext # p2.where THEN change_cell(p2, snext) ELSE p2
      n3 == IF snext # p2.where THEN change_cell_nesc(n, snext) ELSE n
      mgi == get_cell_modelgridindex(p3.where)
      call == find_nextline /\ mgi # get_npts_model /\ modelgrid_thick(mgi) # 1
      r == closest_transition_empty(p3, garbage)
      p4 == IF call THEN [p3 EXCEPT !.next_trans = r.next_trans] ELSE p3
  IN [pkt |-> p4, nesc |-> n3, ret |-> same_cell_same_type(p4, mgi, oldmgi),
      cte |-> IF call THEN <<r>> ELSE <<>>, update_estimators |-> upd]

\* the event branch
step_event(p, n, mgi, oldmgi, edist, ge, rnd) ==
  LET p1 == move_pkt_withtime(p, Half(edist))
      upd == <<update_estimators(p1, edist, ge.kappa)>>
      p2 == move_pkt_withtime(p1, Half(edist))
      ev == IF modelgrid_thick(mgi) = 1
              THEN [pkt |-> rpkt_event_thickcell(p2, rnd.newdir), abort |-> "none"]
            ELSE IF ge.rpkt_eventtype = "RPKT_EVENTTYPE_BB"
              THEN [pkt |-> rpkt_event_boundbound(p2), abort |-> "none"]
            ELSE IF ge.rpkt_eventtype = "RPKT_EVENTTYPE_CONT"
              THEN rpkt_event_continuum(p2, ge.kappa, ge.kappa_bf_sum, rnd)
            ELSE [pkt |-> p2, abort |-> "assert_always(false)"]
  IN [pkt |-> ev.pkt, nesc |-> n, ret |-> same_cell_same_type(ev.pkt, mgi, oldmgi),
      abort |-> ev.abort, cte |-> <<>>, update_estimators |-> upd]

step_time_same_cell(p, n, t_end, tdist, find_nextline, garbage, kappa) ==
  LET p1 == move_pkt_withtime(p, Half(tdist))
      upd == <<update_estimators(p1, tdist, kappa)>>
      p2 == move_pkt([p1 EXCEPT !.prop_time = t_end], Half(tdist))
      r == closest_transition_empty(p2, garbage)
      p3 == IF find_nextline THEN [p2 EXCEPT !.next_trans = r.next_trans] ELSE p2
      mgi == get_cell_modelgridindex(p3.where)
  IN [pkt |-> p3, nesc |-> n, ret |-> same_cell_same_type(p3, mgi, mgi),
      cte |-> IF find_nextline THEN <<r>> ELSE <<>>, update_estimators |-> upd]

\* the end-of-timestep branch
step_time(p, n, t_end, tdist, find_nextline, garbage, kappa) ==
  LET p1 == move_pkt_withtime(p, Half(tdist))
      upd == <<update_estimators(p1, tdist, kappa)>>
      p2 == move_pkt([p1 EXCEPT !.prop_time = t_end], Half(tdist))
      r == closest_transition_empty(p2, garbage)
      p3 == IF find_nextline THEN [p2 EXCEPT !.next_trans = r.next_trans] ELSE p2
  IN [pkt |-> p3, nesc |-> n, ret |-> FALSE,
      cte |-> IF find_nextline THEN <<r>> ELSE <<>>, update_estimators |-> upd]

\* the record of a sub-step that ended in one of the three branches
BranchRecord(r, branch, abort, bc, sdist, snext, tdist, edist, find_nextline, ge) ==
  StepRecord(r.pkt, r.nesc, r.ret, branch, abort, bc, sdist, snext, tdist, edist,
             find_nextline, ge, r.cte, r.update_estimators)

\* do_rpkt_step from the comparison of sdist, tdist and edist on; ge is what
\* get_event returned (NoEvent in an empty or thick cell)
do_rpkt_step_compare(pb, n, t_end, tau_next, rnd, bc, sdist, snext, tdist, ge) ==
  LET mgi == get_cell_modelgridindex(pb.where)
      oldmgi == mgi
      empty == mgi = get_npts_model
      grey == (~empty) /\ modelgrid_thick(mgi) = 1
      find_nextline == empty \/ grey
      edist == IF empty THEN DBL_MAX
               ELSE IF grey
                 THEN tau_next \div (kappagrey_rho * doppler_packet_nucmf_on_nurf)
               ELSE ge.edist
      pe == IF empty \/ grey THEN pb ELSE ge.pkt
      branch == select_branch(sdist, tdist, edist)
  IN IF ge.abort # "none"
       THEN StepRecord(pb, n, FALSE, "abort", ge.abort, bc, sdist, snext, tdist, 0,
                       find_nextline, ge, <<>>, <<>>)
     ELSE IF branch = "boundary"
       THEN BranchRecord(step_boundary(pe, n, oldmgi, sdist, snext, find_nextline, rnd.garbage,
                                       ge.kappa),
                         "boundary", "none", bc, sdist, snext, tdist, edist, find_nextline, ge)
     ELSE IF branch = "event"
       THEN LET r == step_event(pe, n, mgi, oldmgi, edist, ge, rnd)
            IN BranchRecord(r, IF r.abort = "none" THEN "event" ELSE "abort", r.abort, bc,
                            sdist, snext, tdist, edist, find_nextline, ge)
     ELSE IF branch = "time"
       THEN BranchRecord(step_time(pe, n, t_end, tdist, find_nextline, rnd.garbage, ge.kappa),
                         "time", "none", bc, sdist, snext, tdist, edist, find_nextline, ge)
     ELSE StepRecord(pe, n, FALSE, "abort", "Failed to identify event", bc, sdist, snext,
                     tdist, edist, find_nextline, ge, <<>>, <<>>)

\* do_rpkt_step from the return of boundary_cross on; bc is what it returned
do_rpkt_step_crossed(p, n, t_end, maxstep, tau_next, rnd, bc) ==
  LET cellindex == p.where
      oldmgi == get_cell_modelgridindex(cellindex)
      pb == [p EXCEPT !.last_cross = bc.last_cross]
  IN IF bc.distance = 0
       THEN LET p1 == change_cell(pb, bc.snext)
                mgi == get_cell_modelgridindex(p1.where)
            IN StepRecord(p1, change_cell_nesc(n, bc.snext), same_cell_same_type(p1, mgi, oldmgi),
                          "swap", "none", bc, 0, bc.snext, 0, 0, FALSE, NoEvent, <<>>, <<>>)
     ELSE IF bc.distance > rmax
       THEN StepRecord(pb, n, FALSE, "abort", "Unreasonably large sdist", bc, bc.distance,
                       bc.snext, 0, 0, FALSE, NoEvent, <<>>, <<>>)
     ELSE IF ((bc.snext # -99) /\ (bc.snext < 0)) \/ (bc.snext >= ngrid)
       THEN StepRecord(pb, n, FALSE, "abort", "Heading for inappropriate grid cell", bc,
                       bc.distance, bc.snext, 0, 0, FALSE, NoEvent, <<>>, <<>>)
     ELSE
       LET cap == cap_path_step(pb, bc, maxstep)
           tdist == (t_end - pb.prop_time) * CLIGHT_PROP
           mgi == oldmgi
       IN IF tdist < 0
            THEN StepRecord(pb, n, FALSE, "abort", "assert_always(tdist >= 0)", bc, cap.sdist,
                            cap.snext, tdist, 0, FALSE, NoEvent, <<>>, <<>>)
            ELSE do_rpkt_step_compare(pb, n, t_end, tau_next, rnd, bc, cap.sdist, cap.snext, tdist,
                   IF mgi = get_npts_model \/ modelgrid_thick(mgi) = 1 THEN NoEvent
                   ELSE get_event(pb, tau_next, MinDist(tdist, cap.sdist)))

do_rpkt_step(p, n, t_end, maxstep, tau_next, rnd) ==
  do_rpkt_step_crossed(p, n, t_end, maxstep, tau_next, rnd, boundary_cross(p))

(***************************************************************************)
(* Specification of packet propagation: do_rpkt calls do_rpkt_step until   *)
(* it returns false; the driver calls do_rpkt again for a packet that is   *)
(* still an r-packet, in the same or in a later time step.                 *)
(***************************************************************************)
MaxHalfT == 4        \* time steps end at 2, 4, .. 2 * MaxHalfT
MaxTauSteps == 3     \* tau_next is 1 .. MaxTauSteps times 2 * MainKappa.total

TMax == 2 * MaxHalfT

Times == {2 * k : k \in 1..MaxHalfT}

TauNexts == {2 * MainKappa.total * k : k \in 1..MaxTauSteps}

NuTop == TMax + 10

MainLineList == <<NuTop - 2, NuTop - 4, NuTop - 8>>

NuStarts == {NuTop, NuTop - 4, NuTop - 8}

PathSteps == {2, 2 * HalfWidth + 2}

Cells == 0..(ncoordgrid - 1)

FaceOfDir(dir) == IF dir > 0 THEN "POS_X" ELSE "NEG_X"

\* where a packet of cell c can be: inside, on the face it entered through,
\* or just outside the cell after rounding
StartPlaces(c) ==
  {pl \in [pos : {get_cellcoordmin(c) + 2 * k : k \in (-1)..(HalfWidth + 1)},
           dir : {-1, 1}, last_cross : {"NONE", "NEG_X", "POS_X"}] :
     /\ pl.last_cross \in {"NONE", FaceOfDir(pl.dir)}
     /\ (pl.pos = get_cellcoordmin(c)) => (pl.dir = 1 /\ pl.last_cross = "POS_X")
     /\ (pl.pos = get_cellcoordmax(c)) => (pl.dir = -1 /\ pl.last_cross = "NEG_X")}

\* the line the last get_event left as candidate without passing or
\* activating it (-1 if none), and whether the packet has since made a
\* sub-step in an empty or thick cell
NoRetry == [line |-> -1, other |-> FALSE]

RetryAfter(old, p, r) ==
  IF r.get_event.exit \in {"abort_boundary", "continuum_before_line"}
    THEN [line |-> r.get_event.cands[Len(r.get_event.cands)], other |-> FALSE]
  ELSE IF r.get_event.exit # "not_called" THEN NoRetry
  ELSE LET mgi == get_cell_modelgridindex(p.where)
       IN [old EXCEPT !.other = old.other \/ mgi = get_npts_model \/ modelgrid_thick(mgi) = 1]

\* the lines before next_trans are lines the packet has redshifted past
PassedLines(ll, nu_cmf, next_trans) ==
  \A i \in 1..Len(ll) : (i - 1 < next_trans) => (ll[i] >= nu_cmf)

Packet(c, pl, nu, nt) ==
  [type |-> "TYPE_RPKT", where |-> c, pos |-> pl.pos, dir |-> pl.dir, prop_time |-> 0,
   nu_cmf |-> nu, nu_rf |-> divide_by_doppler(nu, pl.dir),
   e_cmf |-> EnergyPerNu * nu, e_rf |-> divide_by_doppler(EnergyPerNu * nu, pl.dir),
   next_trans |-> nt, last_cross |-> pl.last_cross,
   escape_type |-> "none", escape_time |-> -2,
   absorptiontype |-> 0, absorptionfreq |-> divide_by_doppler(0, pl.dir), absorptiondir |-> 0,
   mastate |-> [element |-> 0, ion |-> 0, level |-> 0, activatingline |-> -99],
   em_pos |-> pl.pos, em_time |-> 0, stokes |-> <<1, 0, 0>>, pol_dir |-> emitt_pol_dir(pl.dir)]

\* the shared estimators of one cell at the start of a time step
ZeroEstimators ==
  [ffheatingestimator |-> 0, gammaestimator |-> 0, bfheatingestimator |-> 0]

\* one thread steps the packet: no other thread touches the estimators
SingleThread ==
  /\ estimators = ZeroEstimators
  /\ threads = <<>>
  /\ build = "single"

Init ==
  /\ SingleThread
  /\ linelist = MainLineList
  /\ \E c \in Cells, nu \in NuStarts, nt \in 0..(Len(MainLineList) + 1) :
       \E pl \in StartPlaces(c) :
          /\ PassedLines(MainLineList, nu, nt)
          /\ pkt = Packet(c, pl, nu, nt)
  /\ t2 \in Times
  /\ max_path_step \in PathSteps
  /\ nesc = 0
  /\ pc = "do_rpkt"
  /\ flown = {}
  /\ retry = NoRetry
  /\ h = [op |-> "none"]
  /\ kappa_rpkt_cont = NoKappa
  /\ phixslist = [i \in 1..nbfcontinua |-> 0]
  /\ modelgrid = MainGrid
  /\ globals = MainGlobals

DefaultDraw == [zrand |-> 0, zrand2 |-> 0, zrand3 |-> 0, newdir |-> 1, garbage |-> 0]

\* the draws that can make a difference to the sub-step r
DrawsFor(r) ==
  IF r.branch = "event"
    THEN [zrand : 0..3, zrand2 : 0..3, zrand3 : 0..3, newdir : {-1, 1}, garbage : {0}]
  ELSE IF r.cte # <<>>
    THEN [zrand : {0}, zrand2 : {0}, zrand3 : {0}, newdir : {1}, garbage : {0, DBL_MAX}]
  ELSE {DefaultDraw}

\* one iteration of the while loop of do_rpkt
DoRpktStep ==
  /\ pc = "do_rpkt"
  /\ \E tau_next \in TauNexts :
       \E rnd \in DrawsFor(do_rpkt_step(pkt, nesc, t2, max_path_step, tau_next, DefaultDraw)) :
          \E r \in {do_rpkt_step(pkt, nesc, t2, max_path_step, tau_next, rnd)} :
             /\ pkt' = r.pkt
             /\ nesc' = r.nesc
             /\ pc' = IF r.branch = "abort" THEN "aborted"
                      ELSE IF r.ret THEN "do_rpkt" ELSE "returned"
             /\ flown' = flown \cup {r.get_event.passed[i] : i \in 1..Len(r.get_event.passed)}
             /\ retry' = RetryAfter(retry, pkt, r)
             /\ kappa_rpkt_cont' = r.get_event.kappa
             /\ phixslist' = r.get_event.kappa_bf_sum
             /\ h' = [op |-> "do_rpkt_step", pre |-> pkt, pre_nesc |-> nesc,
                      tau_next |-> tau_next, r |-> r]
  /\ UNCHANGED <<estimators, threads, build, linelist, t2, max_path_step, modelgrid, globals>>

\* the driver hands a packet that is still an r-packet back to do_rpkt
CallDoRpktAgain ==
  /\ pc = "returned"
  /\ pkt.type = "TYPE_RPKT"
  /\ pkt.prop_time < t2
  /\ pc' = "do_rpkt"
  /\ h' = [op |-> "do_rpkt"]
  /\ UNCHANGED <<estimators, threads, build, linelist, pkt, t2, max_path_step, nesc, flown, retry,
                 kappa_rpkt_cont, phixslist, modelgrid, globals>>

\* the next time step starts
NextTimestep ==
  /\ pc = "returned"
  /\ pkt.type = "TYPE_RPKT"
  /\ pkt.prop_time = t2
  /\ \E t \in Times : t > t2 /\ t2' = t
  /\ pc' = "do_rpkt"
  /\ h' = [op |-> "do_rpkt"]
  /\ UNCHANGED <<estimators, threads, build, linelist, pkt, max_path_step, nesc, flown, retry,
                 kappa_rpkt_cont, phixslist, modelgrid, globals>>

Next == DoRpktStep \/ CallDoRpktAgain \/ NextTimestep

Spec == Init /\ [][Next]_vars

(***************************************************************************)
(* Specification of the line-list search: the inputs are drawn by Init,    *)
(* the actions apply closest_transition and closest_transition_empty.      *)
(***************************************************************************)
InitSearch ==
  /\ SingleThread
  /\ linelist \in LineLists
  /\ \E nu \in NuDomain, nt \in 0..(MaxLines + 1) :
        /\ nt <= Len(linelist) + 1
        /\ pkt = Packet(0, [pos |-> 0, dir |-> 1, last_cross |-> "NONE"], nu, nt)
  /\ t2 = 0
  /\ max_path_step = 0
  /\ nesc = 0
  /\ pc = "search"
  /\ flown = {}
  /\ retry = NoRetry
  /\ h = [op |-> "none"]
  /\ kappa_rpkt_cont = NoKappa
  /\ phixslist = [i \in 1..nbfcontinua |-> 0]
  /\ modelgrid = MainGrid
  /\ globals = MainGlobals

CallClosestTransition ==
  /\ pc = "search"
  /\ h' = [op |-> "closest_transition", nu_cmf |-> pkt.nu_cmf, next_trans |-> pkt.next_trans,
           result |-> closest_transition(pkt.nu_cmf, pkt.next_trans)]
  /\ pc' = "searched"
  /\ UNCHANGED <<estimators, threads, build, linelist, pkt, t2, max_path_step, nesc, flown, retry,
                 kappa_rpkt_cont, phixslist, modelgrid, globals>>

CallClosestTransitionEmpty ==
  /\ pc = "search"
  /\ \E garbage \in GarbageNus :
        LET r == closest_transition_empty(pkt, garbage)
        IN /\ pkt' = [pkt EXCEPT !.next_trans = r.next_trans]
           /\ h' = [op |-> "closest_transition_empty", nu_cmf |-> pkt.nu_cmf,
                    next_trans |-> pkt.next_trans, outofbounds |-> r.outofbounds,
                    badrange |-> r.badrange]
  /\ pc' = "searched"
  /\ UNCHANGED <<estimators, threads, build, linelist, t2, max_path_step, nesc, flown, retry,
                 kappa_rpkt_cont, phixslist, modelgrid, globals>>

NextSearch == CallClosestTransition \/ CallClosestTransitionEmpty

SpecSearch == InitSearch /\ [][NextSearch]_vars

(***************************************************************************)
(* Specification of the continuum opacity and the continuum event.  Init   *)
(* draws what the model grid holds of cell 1 and the opacity switches; the *)
(* packet is in cell 1 or cell 2, which belong to different model-grid     *)
(* cells.  A sub-step in such a cell starts with calculate_kappa_rpkt_cont *)
(* (called by get_event); after it the packet moves on, with or without a  *)
(* continuum event at the end of the move.                                 *)
(***************************************************************************)
ContNus == {NuRef - 1, NuRef + 1, NuRef + 3}

ContNuMin == NuRef - 1

ContDists == {0, 2}

ContChannels ==
  {AbsentChannel, Channel(TRUE, FALSE, 1), Channel(TRUE, TRUE, 0), Channel(TRUE, TRUE, 1),
   Channel(TRUE, TRUE, NaN)}

\* the last continuum is absent or contributes
ContCells ==
  {c \in [thomson : {0, 2, Infinity}, freefree : {0, 1, Big, NaN},
          boundfree : [1..nbfcontinua -> ContChannels]] :
     c.boundfree[nbfcontinua] \in {AbsentChannel, Channel(TRUE, TRUE, 1)}}

\* what is not read under the switches g is as in MainCell; a free-free
\* opacity of Big is drawn where it is scaled by ff_scale
ReadOf(c, g) ==
  /\ (~g.do_r_lc) => (c.freefree = MainCell.freefree)
  /\ (g # MainGlobals) => (c.thomson = MainCell.thomson /\ c.boundfree = MainCell.boundfree)
  /\ (g = MainGlobals) => (c.freefree # Big)

\* the draws that can make a difference to a continuum event with the cache kappa
ContDrawsFor(kappa) ==
  {rnd \in [zrand : 0..3, zrand2 : 0..3, zrand3 : {0, 3}, newdir : {-1, 1}, garbage : {0}] :
     /\ (continuum_process(kappa, rnd.zrand) # "bf") => (rnd.zrand2 = 0 /\ rnd.zrand3 = 0)
     /\ (continuum_process(kappa, rnd.zrand) # "es") => (rnd.newdir = 1)}

ContGlobals == {MainGlobals, [do_r_lc |-> TRUE, opacity_case |-> 1],
                [do_r_lc |-> FALSE, opacity_case |-> 4]}

NormalCells == {c \in Cells : /\ get_cell_modelgridindex(c) # get_npts_model
                              /\ modelgrid_thick(get_cell_modelgridindex(c)) # 1}

InitCont ==
  /\ SingleThread
  /\ linelist = MainLineList
  /\ \E nu \in ContNus :
        pkt = Packet(1, [pos |-> get_cellcoordmin(1) + 2, dir |-> 1, last_cross |-> "NONE"], nu, 0)
  /\ t2 = 0
  /\ max_path_step = 0
  /\ nesc = 0
  /\ pc = "cont"
  /\ flown = {}
  /\ retry = NoRetry
  /\ h = [op |-> "none"]
  /\ kappa_rpkt_cont = NoKappa
  /\ phixslist = [i \in 1..nbfcontinua |-> 0]
  /\ globals \in ContGlobals
  /\ \E c \in ContCells :
        /\ ReadOf(c, globals)
        /\ modelgrid = [mgi \in 0..(get_npts_model - 1) |-> IF mgi = 0 THEN c ELSE MainCell]

\* get_event calls calculate_kappa_rpkt_cont for the packet
CallCalculateKappa ==
  /\ pc = "cont"
  /\ pkt.where \in NormalCells
  /\ \E kr \in {calculate_kappa_rpkt_cont(pkt, kappa_rpkt_cont, phixslist)} :
        /\ kappa_rpkt_cont' = kr.kappa
        /\ phixslist' = kr.kappa_bf_sum
        /\ pc' = IF kr.abort # "none" THEN "aborted" ELSE "calculated"
        /\ h' = [op |-> "calculate_kappa_rpkt_cont", pre |-> pkt, kappa |-> kappa_rpkt_cont,
                 sums |-> phixslist, r |-> kr]
  /\ UNCHANGED <<estimators, threads, build, linelist, pkt, t2, max_path_step, nesc, flown, retry, modelgrid, globals>>

\* the packet flies on a distance d and may enter the other cell, without an event
MoveOn ==
  /\ pc = "calculated"
  /\ \E d \in ContDists, c \in NormalCells :
        /\ pkt.nu_cmf - d >= ContNuMin
        /\ pkt' = [move_pkt_withtime(move_pkt_withtime(pkt, Half(d)), Half(d))
                     EXCEPT !.where = c]
        /\ h' = [op |-> "move", pre |-> pkt, d |-> d]
  /\ pc' = "cont"
  /\ UNCHANGED <<estimators, threads, build, linelist, t2, max_path_step, nesc, flown, retry,
                 kappa_rpkt_cont, phixslist, modelgrid, globals>>

\* the event branch of do_rpkt_step for a continuum event at distance edist
ContinuumEvent ==
  /\ pc = "calculated"
  /\ kappa_rpkt_cont.total > 0
  /\ \E edist \in ContDists :
        /\ pkt.nu_cmf - edist >= ContNuMin
        /\ \E rnd \in ContDrawsFor(kappa_rpkt_cont) :
             \E at \in {move_pkt_withtime(move_pkt_withtime(pkt, Half(edist)), Half(edist))} :
               \E r \in {rpkt_event_continuum(at, kappa_rpkt_cont, phixslist, rnd)} :
                  /\ pkt' = r.pkt
                  /\ pc' = IF r.abort # "none" THEN "aborted"
                           ELSE IF r.pkt.type = "TYPE_RPKT" THEN "cont" ELSE "absorbed"
                  /\ h' = [op |-> "rpkt_event_continuum", pre |-> pkt, at |-> at, rnd |-> rnd,
                           kappa |-> kappa_rpkt_cont, sums |-> phixslist, r |-> r]
  /\ UNCHANGED <<estimators, threads, build, linelist, t2, max_path_step, nesc, flown, retry,
                 kappa_rpkt_cont, phixslist, modelgrid, globals>>

\* a recalculation is requested for the thread's cache
RequestRecalculation ==
  /\ pc = "cont"
  /\ ~kappa_rpkt_cont.recalculate_required
  /\ kappa_rpkt_cont' = [kappa_rpkt_cont EXCEPT !.recalculate_required = TRUE]
  /\ h' = [op |-> "request_recalculation"]
  /\ UNCHANGED <<estimators, threads, build, linelist, pkt, t2, max_path_step, nesc, pc, flown, retry,
                 phixslist, modelgrid, globals>>

NextCont == CallCalculateKappa \/ MoveOn \/ ContinuumEvent \/ RequestRecalculation

SpecCont == InitCont /\ [][NextCont]_vars

(***************************************************************************)
(* Specification of the shared accumulators: the threads of one rank each  *)
(* run update_estimators for a segment of their own packet through the     *)
(* same non-empty cell and then change_cell; every step of a thread is one *)
(* access to shared memory.                                                *)
(***************************************************************************)
MaxThreads == 2      \* threads of the rank

\* the builds of safeadd: OpenMP with a host compiler, OpenMP with host code
\* compiled by nvcc, and CUDA device code
Builds == {"openmp", "openmp_nvcc_host", "cuda_device"}

\* safeadd(var, val) as run by a thread whose register is reg: an atomic
\* update, or for host code under nvcc the plain var += val, which loads var
\* and stores the sum in two accesses
safeadd(var, val, reg, b) ==
  IF b = "openmp_nvcc_host"
    THEN IF reg = <<>> THEN [var |-> var, reg |-> <<var>>, done |-> FALSE]
                       ELSE [var |-> fadd(reg[1], val), reg |-> <<>>, done |-> TRUE]
    ELSE [var |-> fadd(var, val), reg |-> <<>>, done |-> TRUE]

safeincrement(var, reg, b) == safeadd(var, 1, reg, b)

\* the per-thread values update_estimators multiplies by, and the one ground
\* continuum below the packets' frequency
ThreadKappa == [ffheating |-> 1, groundcont_gamma_contr |-> 1, nu_edge |-> 2]

ThreadDistances == {2, 4}
ThreadNexts == {-99, 2}

\* the packets are at the mid-point of a segment of length distance
ThreadStarts ==
  [pc : {"ffheating"}, reg : {<<>>}, distance : ThreadDistances, nu_cmf : {2 * ThreadKappa.nu_edge},
   snext : ThreadNexts]

distance_e_cmf(th) == th.distance * (EnergyPerNu * th.nu_cmf)

ffheating_increment(th) == fmul(distance_e_cmf(th), ThreadKappa.ffheating)

gamma_increment(th) ==
  fmul(ThreadKappa.groundcont_gamma_contr, distance_e_cmf(th) \div th.nu_cmf)

bfheating_increment(th) ==
  (fmul(ThreadKappa.groundcont_gamma_contr, distance_e_cmf(th))
     * (th.nu_cmf - ThreadKappa.nu_edge)) \div th.nu_cmf

InitThreads ==
  /\ linelist = MainLineList
  /\ pkt = Packet(1, [pos |-> get_cellcoordmin(1) + 2, dir |-> 1, last_cross |-> "NONE"],
                  2 * ThreadKappa.nu_edge, 0)
  /\ t2 = 0
  /\ max_path_step = 0
  /\ nesc = 0
  /\ pc = "threads"
  /\ flown = {}
  /\ retry = NoRetry
  /\ h = [op |-> "none"]
  /\ kappa_rpkt_cont = NoKappa
  /\ phixslist = [i \in 1..nbfcontinua |-> 0]
  /\ modelgrid = MainGrid
  /\ globals = MainGlobals
  /\ estimators = ZeroEstimators
  /\ threads \in [1..MaxThreads -> ThreadStarts]
  /\ build \in Builds

ThreadUnchanged ==
  UNCHANGED <<linelist, pkt, t2, max_path_step, pc, flown, retry, h,
              kappa_rpkt_cont, phixslist, modelgrid, globals, build>>

\* update_estimators: safeadd to ffheatingestimator
AddFfheating(t) ==
  /\ threads[t].pc = "ffheating"
  /\ \E r \in {safeadd(estimators.ffheatingestimator, ffheating_increment(threads[t]),
                       threads[t].reg, build)} :
        /\ estimators' = [estimators EXCEPT !.ffheatingestimator = r.var]
        /\ threads' = [threads EXCEPT ![t].reg = r.reg,
                                      ![t].pc = IF r.done THEN "gamma" ELSE "ffheating"]
  /\ nesc' = nesc
  /\ ThreadUnchanged

\* update_estimators: safeadd to gammaestimator
AddGamma(t) ==
  /\ threads[t].pc = "gamma"
  /\ \E r \in {safeadd(estimators.gammaestimator, gamma_increment(threads[t]),
                       threads[t].reg, build)} :
        /\ estimators' = [estimators EXCEPT !.gammaestimator = r.var]
        /\ threads' = [threads EXCEPT ![t].reg = r.reg,
                                      ![t].pc = IF r.done THEN "isfinite" ELSE "gamma"]
  /\ nesc' = nesc
  /\ ThreadUnchanged

\* update_estimators: the test of the shared gammaestimator
CheckFinite(t) ==
  /\ threads[t].pc = "isfinite"
  /\ threads' = [threads EXCEPT ![t].pc = IF isfinite(estimators.gammaestimator)
                                            THEN "bfheating" ELSE "aborted"]
  /\ UNCHANGED <<estimators, nesc>>
  /\ ThreadUnchanged

\* update_estimators: safeadd to bfheatingestimator
AddBfheating(t) ==
  /\ threads[t].pc = "bfheating"
  /\ \E r \in {safeadd(estimators.bfheatingestimator, bfheating_increment(threads[t]),
                       threads[t].reg, build)} :
        /\ estimators' = [estimators EXCEPT !.bfheatingestimator = r.var]
        /\ threads' = [threads EXCEPT ![t].reg = r.reg,
                                      ![t].pc = IF r.done THEN "change_cell" ELSE "bfheating"]
  /\ nesc' = nesc
  /\ ThreadUnchanged

\* change_cell at the end of the segment: the escape counter, or a new cell
ChangeCell(t) ==
  /\ threads[t].pc = "change_cell"
  /\ IF threads[t].snext = -99
       THEN \E r \in {safeincrement(nesc, threads[t].reg, build)} :
               /\ nesc' = r.var
               /\ threads' = [threads EXCEPT ![t].reg = r.reg,
                                             ![t].pc = IF r.done THEN "done" ELSE "change_cell"]
       ELSE /\ nesc' = nesc
            /\ threads' = [threads EXCEPT ![t].pc = "done"]
  /\ estimators' = estimators
  /\ ThreadUnchanged

NextThreads ==
  \E t \in 1..MaxThreads :
     AddFfheating(t) \/ AddGamma(t) \/ CheckFinite(t) \/ AddBfheating(t) \/ ChangeCell(t)

SpecThreads == InitThreads /\ [][NextThreads]_vars

(***************************************************************************)
(* Properties of do_rpkt and do_rpkt_step, over the last sub-step h.        *)
(***************************************************************************)
Step == h.op = "do_rpkt_step"

mgi_of(cellindex) == get_cell_modelgridindex(cellindex)

EmptyOrThick(cellindex) ==
  mgi_of(cellindex) = get_npts_model \/ modelgrid_thick(mgi_of(cellindex)) = 1

\* the sub-step went as far as comparing sdist, tdist and edist
Compared(r) ==
  /\ r.branch # "swap"
  /\ r.abort \notin {"Unreasonably large sdist", "Heading for inappropriate grid cell",
                     "assert_always(tdist >= 0)"}

Min3(a, b, c) == MinDist(a, MinDist(b, c))

\* C1: in a sub-step with sdist > 0 the branch taken is the one whose distance
\* is the minimum of sdist, tdist and edist, and the fatal "Failed to identify
\* event" exit is taken only when none of the three is finite, never for
\* finite distances, two of which may be equal.
C1_MinimumWins ==
  (Step /\ Compared(h.r)) =>
     LET r == h.r
         m == Min3(r.sdist, r.tdist, r.edist)
     IN /\ (r.abort = "Failed to identify event") =>
              (r.sdist >= DBL_MAX /\ r.tdist >= DBL_MAX /\ r.edist >= DBL_MAX)
        /\ (r.branch = "boundary") => (r.sdist = m)
        /\ (r.branch = "event") => (r.edist = m)
        /\ (r.branch = "time") => (r.tdist = m)

C3_ReturnsInTerminalState ==
  /\ pc # "aborted"
  /\ (Step /\ pc = "returned") =>
        \/ pkt.type # "TYPE_RPKT"
        \/ mgi_of(pkt.where) # mgi_of(h.pre.where)
        \/ pkt.prop_time = t2

Escaped ==
  /\ pkt.type = "TYPE_ESCAPE"
  /\ pkt.escape_type = "TYPE_RPKT"
  /\ pkt.escape_time = pkt.prop_time
  /\ pkt.escape_time = h.pre.prop_time + h.r.bc.distance
  /\ pkt.where = h.pre.where
  /\ nesc = h.pre_nesc + 1
  /\ ~h.r.ret
  /\ pc = "returned"

\* the boundary found by boundary_cross is what the sub-step acts on
BoundaryWins(r) ==
  \/ r.bc.distance = 0
  \/ /\ Compared(r)
     /\ r.bc.distance <= max_path_step
     /\ r.bc.distance < r.tdist
     /\ r.bc.distance < r.edist

\* C4 as stated: whenever boundary_cross returns snext = -99 the same sub-step
\* ends with the packet escaped (escape_type R_PKT, escape_time the time of
\* the crossing, where unchanged, one more escape counted), do_rpkt_step
\* returns false and no further sub-step is applied.
C4_EscapeWheneverSentinel ==
  (Step /\ h.r.bc.snext = -99) => Escaped

\* C4 amended: when boundary_cross returns snext = -99 and the boundary wins
\* the sub-step (sdist = 0, or sdist <= max_path_step, sdist < tdist and
\* sdist < edist) the sub-step ends with the packet escaped as above; in every
\* other sub-step the packet does not escape, and an escaped packet is never
\* stepped again.
C4_EscapeWhenBoundaryWins ==
  /\ (Step /\ h.r.bc.snext = -99 /\ BoundaryWins(h.r)) => Escaped
  /\ (Step /\ ~(h.r.bc.snext = -99 /\ BoundaryWins(h.r))) => pkt.type # "TYPE_ESCAPE"
  /\ (pkt.type = "TYPE_ESCAPE") => (Step /\ Escaped)

C4_Witness ==
  /\ Step /\ h.r.branch = "boundary" /\ h.r.bc.snext = -99
  /\ h.r.bc.distance > 0
  /\ pkt.type = "TYPE_ESCAPE"
  /\ nesc = 1

\* C5: when tdist is smaller than both sdist and edist the sub-step ends with
\* prop_time = t_end, the packet still an r-packet in the same cell, and
\* do_rpkt_step returns false; closest_transition_empty is called if and only
\* if the cell is empty or thick.
C5_TimeStepEndWins ==
  (Step /\ Compared(h.r) /\ h.r.tdist < h.r.sdist /\ h.r.tdist < h.r.edist) =>
     /\ h.r.branch = "time"
     /\ pkt.prop_time = t2
     /\ pkt.type = "TYPE_RPKT"
     /\ pkt.where = h.pre.where
     /\ ~h.r.ret
     /\ pc = "returned"
     /\ (h.r.cte # <<>>) <=> EmptyOrThick(h.pre.where)

C5_Witness ==
  /\ Step /\ h.r.branch = "time"
  /\ h.r.tdist < h.r.sdist /\ h.r.tdist < h.r.edist
  /\ h.r.edist < DBL_MAX
  /\ h.r.cte # <<>>
  /\ pkt.prop_time = t2 /\ h.pre.prop_time < t2

GetEventCalled == Step /\ h.r.get_event.exit # "not_called"

StrictlyIncreasing(s) == \A i \in 1..(Len(s) - 1) : s[i] < s[i + 1]

\* C6 as stated: within one get_event every assignment to the shadow packet's
\* next_trans gives a value larger than the value it had before, so no line
\* is a resonance candidate twice.
C6_EveryWriteIncreases ==
  GetEventCalled =>
     /\ StrictlyIncreasing(<<h.pre.next_trans>> \o h.r.get_event.writes)
     /\ StrictlyIncreasing(h.r.get_event.cands)

\* C6 amended: within one get_event the candidate lines are strictly
\* increasing, every assignment next_trans = lineindex + 1 gives a value
\* larger than the value before, the closing assignment (one line back, or
\* the sentinel nlines + 1) is the only one that need not, and the value
\* committed to the packet is not below the value at entry.
C6_CandidatesIncrease ==
  GetEventCalled =>
     LET g == h.r.get_event
         w == <<h.pre.next_trans>> \o g.writes
     IN /\ StrictlyIncreasing(g.cands)
        /\ Len(g.writes) \in {Len(g.cands), Len(g.cands) + 1}
        /\ \A k \in 1..Len(g.cands) : g.writes[k] = g.cands[k] + 1 /\ w[k] < w[k + 1]
        /\ (Len(g.writes) > Len(g.cands)) =>
              LET last == g.writes[Len(g.writes)]
              IN \/ g.exit = "no_line" /\ last = nlines + 1
                 \/ g.exit \in {"abort_boundary", "continuum_before_line"}
                      /\ last = g.cands[Len(g.cands)]
        /\ g.next_trans = w[Len(w)]
        /\ pkt.next_trans >= h.pre.next_trans
        /\ g.next_trans >= h.pre.next_trans

C6_Witness ==
  /\ GetEventCalled
  /\ Len(h.r.get_event.cands) >= 2
  /\ h.r.get_event.exit \in {"abort_boundary", "continuum_before_line"}
  /\ h.r.get_event.next_trans > h.pre.next_trans

SeqRange(s) == {s[i] : i \in 1..Len(s)}

\* the lines a sub-step flies past or activates
LinesMet(r) ==
  SeqRange(r.get_event.passed) \cup
    (IF r.get_event.exit = "boundbound" THEN {r.get_event.activatingline} ELSE {})

\* C7: over the sub-steps of one packet pkt.next_trans never decreases, and a
\* line the packet has flown past is never flown past or activated again.
C7_NextTransNeverDecreases ==
  [][/\ pkt'.next_trans >= pkt.next_trans
     /\ (h'.op = "do_rpkt_step") => (LinesMet(h'.r) \cap flown = {})]_vars

C7_Witness ==
  /\ GetEventCalled
  /\ h.r.get_event.cands # <<>>
  /\ flown \ SeqRange(h.r.get_event.passed) # {}
  /\ h.pre.next_trans > 0
  /\ pkt.next_trans > h.pre.next_trans

\* the sub-step moved the packet into another cell with change_cell
MovedIntoNewCell == Step /\ h.r.branch \in {"boundary", "swap"} /\ pkt.where # h.pre.where

\* C11 as stated: when the boundary wins and change_cell moves the packet into
\* a new cell that is empty or thick, closest_transition_empty is called to
\* re-seat next_trans.
C11_ReseatIfNewCellEmptyOrThick ==
  (MovedIntoNewCell /\ h.r.branch = "boundary" /\ EmptyOrThick(pkt.where)) => (h.r.cte # <<>>)

\* C11 amended: when the boundary wins, closest_transition_empty is called
\* exactly when the cell the packet leaves is empty or thick and the cell it
\* is in afterwards is neither; next_trans is then what the call returned and
\* otherwise what get_event left.  A packet put into the next cell at
\* sdist = 0 is not re-seated.
C11_ReseatOnLeavingEmptyOrThick ==
  /\ (Step /\ h.r.branch = "boundary") =>
        /\ (h.r.cte # <<>>) <=> (EmptyOrThick(h.pre.where) /\ ~EmptyOrThick(pkt.where))
        /\ (h.r.cte # <<>>) => (pkt.next_trans = h.r.cte[1].next_trans)
        /\ (h.r.cte = <<>>) =>
              (pkt.next_trans = IF EmptyOrThick(h.pre.where) THEN h.pre.next_trans
                                ELSE h.r.get_event.next_trans)
  /\ (Step /\ h.r.branch = "swap") => (h.r.cte = <<>> /\ pkt.next_trans = h.pre.next_trans)

C11_Witness ==
  /\ MovedIntoNewCell /\ h.r.branch = "boundary"
  /\ EmptyOrThick(h.pre.where) /\ ~EmptyOrThick(pkt.where)
  /\ h.r.cte # <<>>
  /\ pkt.next_trans > h.pre.next_trans

RECURSIVE LineDepth(_)
\* the summed optical depth of the lines in s
LineDepth(s) == IF s = <<>> THEN 0 ELSE tau_line(s[1]) + LineDepth(Tail(s))

\* the abort_dist get_event was called with in the last sub-step
AbortDist == MinDist(h.r.tdist, h.r.sdist)

LastOf(s) == s[Len(s)]

\* C12: if get_event, called with abort_dist = min(tdist, sdist) > 0, returns a
\* bound-bound event for line i, the distance is below abort_dist, the event
\* branch is taken and the packet ends the sub-step as a macro-atom with
\* absorptiontype = i, absorptionfreq = nu_rf, absorptiondir = dir and the
\* element, ion and upper level of line i.
C12_BoundBoundWins ==
  (GetEventCalled /\ h.r.get_event.rpkt_eventtype = "RPKT_EVENTTYPE_BB" /\ AbortDist > 0) =>
     LET i == LastOf(h.r.get_event.cands)
     IN /\ h.r.get_event.edist < AbortDist
        /\ h.r.edist = h.r.get_event.edist
        /\ h.r.branch = "event"
        /\ pkt.type = "TYPE_MA"
        /\ pkt.absorptiontype = i
        /\ pkt.absorptionfreq = pkt.nu_rf /\ pkt.nu_rf = h.pre.nu_rf
        /\ pkt.absorptiondir = pkt.dir /\ pkt.dir = h.pre.dir
        /\ pkt.mastate = [element |-> linelist_elementindex(i), ion |-> linelist_ionindex(i),
                          level |-> linelist_upperlevelindex(i), activatingline |-> i]
        /\ pkt.prop_time = h.pre.prop_time + h.r.get_event.edist

C12_Witness ==
  /\ GetEventCalled /\ h.r.get_event.rpkt_eventtype = "RPKT_EVENTTYPE_BB"
  /\ Len(h.r.get_event.cands) >= 2
  /\ h.pre.nu_cmf - linelist_nu(LastOf(h.r.get_event.cands)) >= AbortDist
  /\ pkt.type = "TYPE_MA" /\ pkt.absorptiontype = 2
  /\ pkt.mastate.level = linelist_upperlevelindex(2)

\* get_event returned without passing or activating its last candidate
LineNotReached(r) == r.get_event.exit \in {"abort_boundary", "continuum_before_line"}

\* what C13 says of the get_event call that has just returned: the last
\* candidate i was neither passed nor activated, the distance is +infinity
\* when line i lies beyond the abort boundary, and next_trans = i is committed
CommittedToCandidate(r) ==
  LineNotReached(r) =>
     LET i == LastOf(r.get_event.cands)
     IN /\ r.get_event.pkt.next_trans = i
        /\ i \notin SeqRange(r.get_event.passed)
        /\ (r.get_event.exit = "abort_boundary") =>
              (r.get_event.edist = DBL_MAX /\ r.get_event.rpkt_eventtype = "none")
        /\ (r.branch # "abort") => (r.pkt.next_trans = i)

\* C13 as stated: whenever get_event returns without the packet having passed
\* or activated the candidate line i, next_trans = i is committed to the
\* packet, and line i is the first candidate of the next get_event call for
\* that packet.
C13_RetriedAtNextGetEvent ==
  [][(h'.op = "do_rpkt_step") =>
       /\ CommittedToCandidate(h'.r)
       /\ (h'.r.get_event.exit # "not_called" /\ retry.line >= 0) =>
             (h'.r.get_event.cands # <<>> /\ h'.r.get_event.cands[1] = retry.line)]_vars

\* C13 amended: next_trans = i is committed as above, and line i is the first
\* candidate of the next get_event call for that packet if the packet makes
\* no sub-step in an empty or thick cell in between.
C13_RetriedUnlessReseated ==
  [][(h'.op = "do_rpkt_step") =>
       /\ CommittedToCandidate(h'.r)
       /\ (h'.r.get_event.exit # "not_called" /\ retry.line >= 0 /\ ~retry.other) =>
             (h'.r.get_event.cands # <<>> /\ h'.r.get_event.cands[1] = retry.line)]_vars

C13_Witness ==
  /\ GetEventCalled
  /\ h.r.get_event.exit = "abort_boundary"
  /\ Len(h.r.get_event.cands) >= 2
  /\ h.r.branch \in {"boundary", "time"}
  /\ pkt.next_trans = LastOf(h.r.get_event.cands)
  /\ retry.line = pkt.next_trans

\* C14 as stated: get_event returns +infinity whenever no event occurs before
\* abort_dist; every finite distance it returns is at most abort_dist.
C14_FiniteWithinAbortDist ==
  GetEventCalled => (h.r.get_event.edist < DBL_MAX => h.r.get_event.edist <= AbortDist)

\* C14 amended: a bound-bound distance is below abort_dist; a continuum
\* distance found after the last line is at most abort_dist; a continuum
\* distance found before the candidate line is finite and at most the
\* distance to that line, and may exceed abort_dist, in which case the event
\* branch is not taken; +infinity is returned when the candidate line lies
\* beyond the abort boundary, or no line is left and the continuum depth to
\* abort_dist is below tau_next.
C14_FiniteDistances ==
  GetEventCalled =>
     LET g == h.r.get_event
     IN /\ (g.exit = "boundbound") => (AbortDist > 0 => g.edist < AbortDist)
        /\ (g.exit = "no_line") =>
              /\ (g.edist < DBL_MAX) => (g.edist <= AbortDist)
              /\ (g.edist = DBL_MAX) <=>
                    (h.tau_next - LineDepth(g.passed) > g.kappa.total * AbortDist)
        /\ (g.exit = "abort_boundary") => (g.edist = DBL_MAX)
        /\ (g.exit = "continuum_before_line") =>
              /\ g.edist < DBL_MAX
              /\ g.edist <= h.pre.nu_cmf - linelist_nu(LastOf(g.cands))
        /\ (g.edist > AbortDist) => (h.r.branch # "event")
        /\ (g.edist = DBL_MAX) <=> (g.rpkt_eventtype = "none")

C14_Witness ==
  /\ GetEventCalled
  /\ h.r.get_event.exit = "continuum_before_line"
  /\ h.r.get_event.edist > AbortDist
  /\ h.r.get_event.rpkt_eventtype = "RPKT_EVENTTYPE_CONT"
  /\ h.r.branch = "boundary"
  /\ pkt.type = "TYPE_RPKT"

\* the packet handed to get_event: boundary_cross has set last_cross
BeforeGetEvent == [h.pre EXCEPT !.last_cross = h.r.bc.last_cross]

\* C15: on return from get_event the caller's packet has the same pos, dir,
\* prop_time, nu_cmf, nu_rf, e_cmf, e_rf, type, where and last_cross as
\* before; only next_trans and, on a bound-bound return, the macro-atom
\* state may differ.
C15_GetEventFrame ==
  GetEventCalled =>
     LET before == BeforeGetEvent
         after == h.r.get_event.pkt
     IN /\ after.pos = before.pos /\ after.dir = before.dir
        /\ after.prop_time = before.prop_time
        /\ after.nu_cmf = before.nu_cmf /\ after.nu_rf = before.nu_rf
        /\ after.e_cmf = before.e_cmf /\ after.e_rf = before.e_rf
        /\ after.type = before.type /\ after.where = before.where
        /\ after.last_cross = before.last_cross
        /\ after = [before EXCEPT !.next_trans = after.next_trans, !.mastate = after.mastate]
        /\ (h.r.get_event.rpkt_eventtype # "RPKT_EVENTTYPE_BB") =>
              (after.mastate = before.mastate)

C15_Witness ==
  /\ GetEventCalled
  /\ h.r.get_event.rpkt_eventtype = "RPKT_EVENTTYPE_BB"
  /\ Len(h.r.get_event.passed) >= 1
  /\ h.pre.nu_cmf > linelist_nu(LastOf(h.r.get_event.cands))
  /\ h.r.get_event.pkt.next_trans > h.pre.next_trans
  /\ h.r.get_event.pkt.mastate # h.pre.mastate
  /\ h.r.get_event.pkt.nu_cmf = h.pre.nu_cmf

\* a sub-step that ended with the grey scattering of a thick cell
ThickCellEvent ==
  /\ Step /\ h.r.branch = "event"
  /\ mgi_of(h.pre.where) # get_npts_model
  /\ modelgrid_thick(mgi_of(h.pre.where)) = 1

\* the packet at the place of the event, before the handler acts
AtEvent ==
  move_pkt_withtime(move_pkt_withtime(BeforeGetEvent, Half(h.r.edist)), Half(h.r.edist))

\* C18: the scattering in a thick cell leaves type (r-packet), nu_cmf, e_cmf,
\* pos, prop_time, where and next_trans as they were; it sets last_cross to
\* NONE, the Stokes vector to (1, 0, 0), pol_dir to a unit vector orthogonal
\* to the new direction, em_pos to pos, em_time to prop_time, and nu_rf and
\* e_rf to nu_cmf and e_cmf divided by the Doppler factor of the new
\* direction.
C18_ThickCellScatter ==
  ThickCellEvent =>
     /\ pkt.type = "TYPE_RPKT" /\ AtEvent.type = "TYPE_RPKT"
     /\ pkt.nu_cmf = AtEvent.nu_cmf /\ pkt.e_cmf = AtEvent.e_cmf
     /\ pkt.pos = AtEvent.pos /\ pkt.prop_time = AtEvent.prop_time
     /\ pkt.where = AtEvent.where /\ pkt.next_trans = AtEvent.next_trans
     /\ pkt.last_cross = "NONE"
     /\ pkt.stokes = <<1, 0, 0>>
     /\ dot(pkt.pol_dir, pkt.pol_dir) = 1
     /\ dot(pkt.pol_dir, dir_vector(pkt.dir)) = 0
     /\ pkt.em_pos = pkt.pos /\ pkt.em_time = pkt.prop_time
     /\ pkt.nu_rf = divide_by_doppler(pkt.nu_cmf, pkt.dir)
     /\ pkt.e_rf = divide_by_doppler(pkt.e_cmf, pkt.dir)

C18_Witness ==
  /\ ThickCellEvent
  /\ h.r.edist > 0
  /\ pkt.dir # h.pre.dir
  /\ h.r.bc.last_cross # "NONE"
  /\ h.pre.em_pos # pkt.pos
  /\ pkt.nu_rf.dir = pkt.dir /\ pkt.nu_rf.cmf < h.pre.nu_cmf

(***************************************************************************)
(* Properties of the continuum event and of the opacity cache, over the    *)
(* last operation h of the continuum specification.                        *)
(***************************************************************************)
ContinuumEventDone == h.op = "rpkt_event_continuum"

\* four times the partial sums es, es + ff, es + ff + bf of the cache used
PartialSum4(kappa, n) ==
  4 * (kappa.es + (IF n >= 2 THEN kappa.ff ELSE 0) + (IF n >= 3 THEN kappa.bf ELSE 0))

\* the first partial sum that strictly exceeds u * kappa_cont, 0 if none does
FirstExceeding(kappa, zrand) ==
  IF \E n \in 1..3 : PartialSum4(kappa, n) > zrand * kappa.total
    THEN CHOOSE n \in 1..3 : /\ PartialSum4(kappa, n) > zrand * kappa.total
                             /\ \A m \in 1..(n - 1) :
                                   ~(PartialSum4(kappa, m) > zrand * kappa.total)
    ELSE 0

\* C16: a continuum event ends in the outcome of the first of the partial
\* sums es, es + ff, es + ff + bf that strictly exceeds u * kappa_cont: an
\* electron scattering (still an r-packet, nu_cmf and next_trans unchanged,
\* em_pos and em_time the place and time of the event), a free-free
\* absorption (k-packet, absorptiontype -1) or a bound-free absorption
\* (absorptiontype -2; a macro-atom of ion + 1 in the upper level of the
\* photoionisation with activatingline -99 if u3 < nu_edge / nu, else a
\* k-packet); it aborts if no sum exceeds it, which does not happen for
\* total = es + ff + bf > 0.
C16_ContinuumOutcome ==
  ContinuumEventDone =>
     LET n == FirstExceeding(h.kappa, h.rnd.zrand)
         i == h.r.allcontindex
     IN /\ h.kappa.total = h.kappa.es + h.kappa.ff + h.kappa.bf
        /\ h.kappa.total > 0
        /\ n # 0 /\ h.r.abort = "none" /\ pc # "aborted"
        /\ (n = 1) => /\ pkt.type = "TYPE_RPKT"
                      /\ pkt.nu_cmf = h.at.nu_cmf /\ pkt.next_trans = h.at.next_trans
                      /\ pkt.em_pos = h.at.pos /\ pkt.em_time = h.at.prop_time
                      /\ pkt.pos = h.at.pos /\ pkt.prop_time = h.at.prop_time
                      /\ pkt.absorptiontype = h.at.absorptiontype
        /\ (n = 2) => /\ pkt.type = "TYPE_KPKT" /\ pkt.absorptiontype = -1
        /\ (n = 3) => /\ pkt.absorptiontype = -2
                      /\ IF h.rnd.zrand3 * h.at.nu_cmf < 4 * allcont_nu_edge(i)
                           THEN /\ pkt.type = "TYPE_MA"
                                /\ pkt.mastate.element = allcont_element(i)
                                /\ pkt.mastate.ion = allcont_ion(i) + 1
                                /\ pkt.mastate.level =
                                     get_phixsupperlevel(allcont_element(i), allcont_ion(i),
                                                         allcont_level(i))
                                /\ pkt.mastate.activatingline = -99
                           ELSE pkt.type = "TYPE_KPKT"

C16_Witness ==
  /\ ContinuumEventDone
  /\ h.kappa.es = 0 /\ h.kappa.ff > 0 /\ h.kappa.bf > 0
  /\ h.rnd.zrand = 3
  /\ pkt.type = "TYPE_MA" /\ pkt.absorptiontype = -2 /\ pkt.mastate.ion = allcont_ion(h.r.allcontindex) + 1

\* the own contribution of continuum i to the cumulative array sums
OwnContribution(sums, i) == sums[i + 1] - (IF i = 0 THEN 0 ELSE sums[i])

\* C17: in the bound-free branch the continuum selected for any u2 in [0, 1)
\* is a valid index below nbfcontinua whose own contribution to kappa_bf_sum
\* is strictly positive, hence one with nu_edge <= nu_cmf; a continuum that
\* contributes no opacity is never selected.
C17_SelectedChannelContributes ==
  (ContinuumEventDone /\ h.r.process = "bf") =>
     /\ h.r.allcontindex >= 0 /\ h.r.allcontindex < nbfcontinua
     /\ OwnContribution(h.sums, h.r.allcontindex) > 0
     /\ allcont_nu_edge(h.r.allcontindex) <= h.at.nu_cmf

KappaCalled == h.op = "calculate_kappa_rpkt_cont"

\* the three conditions of a valid cache, for the packet and cache of the call
CacheHit ==
  /\ h.kappa.modelgridindex = mgi_of(h.pre.where)
  /\ ~h.kappa.recalculate_required
  /\ (h.kappa.nu - h.pre.nu_cmf) * CacheTolerance < h.pre.nu_cmf
  /\ (h.pre.nu_cmf - h.kappa.nu) * CacheTolerance < h.pre.nu_cmf

\* C19: a call of calculate_kappa_rpkt_cont that returns leaves every field
\* of the cache unchanged if and only if the cached model-grid index is the
\* packet's, no recalculation is requested and |nu_cached / nu_cmf - 1| <
\* 1e-4; in every other case it stores nu = nu_cmf, the packet's model-grid
\* index and total = es + ff + bf.
C19_CacheUnchangedIffValid ==
  (KappaCalled /\ h.r.abort = "none") =>
     /\ (kappa_rpkt_cont = h.kappa) <=> CacheHit
     /\ (~CacheHit) =>
           /\ kappa_rpkt_cont.nu = h.pre.nu_cmf
           /\ kappa_rpkt_cont.modelgridindex = mgi_of(h.pre.where)
           /\ kappa_rpkt_cont.total =
                 kappa_rpkt_cont.es + kappa_rpkt_cont.ff + kappa_rpkt_cont.bf
           /\ ~kappa_rpkt_cont.recalculate_required

C19_Witness ==
  /\ KappaCalled /\ h.r.abort = "none"
  /\ CacheHit
  /\ h.kappa.nu # h.pre.nu_cmf
  /\ kappa_rpkt_cont = h.kappa
  /\ kappa_rpkt_cont.total > 0

\* a call that computes a non-finite free-free opacity or a non-finite
\* contribution to the bound-free opacity while SIGMA_T * nne is finite
NonFinitePart ==
  /\ KappaCalled /\ ~CacheHit
  /\ globals.do_r_lc
  /\ LET cell == modelgrid[mgi_of(h.pre.where)]
     IN /\ (globals.opacity_case = 4) => isfinite(cell.thomson)
        /\ \/ ~isfinite(cell.freefree)
           \/ /\ globals.opacity_case = 4
              /\ \E i \in 0..(nbfcontinua - 1) :
                    /\ cell.boundfree[i + 1].present /\ cell.boundfree[i + 1].populated
                    /\ allcont_nu_edge(i) <= h.pre.nu_cmf
                    /\ ~isfinite(cell.boundfree[i + 1].contr)

\* C20: when the continuum opacity comes out non-finite because its
\* free-free or bound-free part is non-finite while the Thomson part es is
\* finite, calculate_kappa_rpkt_cont does not abort but returns with total =
\* es and ff = bf = 0.
C20_FallsBackToThomson ==
  NonFinitePart =>
     /\ h.r.abort = "none" /\ pc # "aborted"
     /\ kappa_rpkt_cont.total = kappa_rpkt_cont.es
     /\ kappa_rpkt_cont.ff = 0 /\ kappa_rpkt_cont.bf = 0

(***************************************************************************)
(* Line-list search properties.                                            *)
(***************************************************************************)
LinesAtOrBelow(nu_cmf, from) == {i \in from..(nlines - 1) : linelist_nu(i) <= nu_cmf}

MinOf(S) == CHOOSE x \in S : \A y \in S : x <= y

\* C8: on a list sorted by descending nu, closest_transition(nu_cmf, 0) is -1
\* below the reddest line, 0 at or above the bluest line, otherwise the lowest
\* index whose line frequency is <= nu_cmf; the result is -1 or a valid index.
C8_SearchFromZero ==
  (h.op = "closest_transition" /\ h.next_trans = 0) =>
     /\ h.result \in {-1} \cup (0..(nlines - 1))
     /\ (h.nu_cmf < linelist_nu(nlines - 1)) => (h.result = -1)
     /\ (h.nu_cmf >= linelist_nu(0)) => (h.result = 0)
     /\ (h.nu_cmf >= linelist_nu(nlines - 1)) =>
           (h.result = MinOf(LinesAtOrBelow(h.nu_cmf, 0)))

C8_Witness ==
  /\ h.op = "closest_transition" /\ h.next_trans = 0
  /\ nlines = 3
  /\ h.nu_cmf < linelist_nu(0) /\ h.nu_cmf >= linelist_nu(nlines - 1)
  /\ h.result = 2

\* C9: for 0 < next_trans <= nlines-1 and nu_cmf not below the reddest line the
\* result is next_trans itself, whatever nu_cmf is; for next_trans > nlines-1
\* the result is -1.
C9_ShortCircuit ==
  (h.op = "closest_transition") =>
     /\ (h.next_trans > 0 /\ h.next_trans <= nlines - 1
           /\ h.nu_cmf >= linelist_nu(nlines - 1)) => (h.result = h.next_trans)
     /\ (h.next_trans > nlines - 1) => (h.result = -1)

C9_Witness ==
  /\ h.op = "closest_transition"
  /\ h.next_trans = 1 /\ nlines = 3
  /\ h.nu_cmf >= linelist_nu(2) /\ h.nu_cmf < linelist_nu(2 - 1)
  /\ linelist_nu(1) > linelist_nu(2)
  /\ h.result = 1

\* C10: after closest_transition_empty, next_trans is the first index
\* i >= the previous next_trans with linelist[i].nu <= nu_cmf, and the
\* sentinel nlines + 1 if there is no such line.
C10_ReseatOrSentinel ==
  (h.op = "closest_transition_empty") =>
     LET cands == LinesAtOrBelow(h.nu_cmf, h.next_trans)
     IN pkt.next_trans = (IF cands # {} THEN MinOf(cands) ELSE nlines + 1)

(***************************************************************************)
(* Estimator updates                                                       *)
(***************************************************************************)
\* the length of the segment of a sub-step that ended in one of the branches
WinnerDistance(r) ==
  IF r.branch = "boundary" THEN r.sdist
  ELSE IF r.branch = "event" THEN r.edist
  ELSE r.tdist

\* the packet after the first half of the segment
MidPoint == move_pkt_withtime(h.pre, Half(WinnerDistance(h.r)))

C21_WitnessEmptyCell ==
  /\ Step /\ h.r.branch = "boundary"
  /\ h.r.sdist > 0
  /\ mgi_of(h.pre.where) = get_npts_model
  /\ h.r.update_estimators[1].J = 0

(***************************************************************************)
(* Shared accumulators                                                     *)
(***************************************************************************)
RECURSIVE SumOver(_, _)
SumOver(f, n) == IF n = 0 THEN 0 ELSE f[n] + SumOver(f, n - 1)

ThreadsDone == build # "single" /\ \A t \in DOMAIN threads : threads[t].pc = "done"

\* every accumulator holds the sum of the increments of all threads
EverySumComplete ==
  /\ estimators.ffheatingestimator =
        SumOver([t \in DOMAIN threads |-> ffheating_increment(threads[t])], Len(threads))
  /\ estimators.gammaestimator =
        SumOver([t \in DOMAIN threads |-> gamma_increment(threads[t])], Len(threads))
  /\ estimators.bfheatingestimator =
        SumOver([t \in DOMAIN threads |-> bfheating_increment(threads[t])], Len(threads))
  /\ nesc = Cardinality({t \in DOMAIN threads : threads[t].snext = -99})

\* C22 as stated: when the threads have stepped their packets through the
\* same cell, ffheatingestimator, gammaestimator, bfheatingestimator and nesc
\* hold the sum of all increments, for every interleaving of the threads.
C22_NoIncrementLost == ThreadsDone => EverySumComplete

\* where safeadd is an atomic update no increment is lost
AtomicBuildsKeepEverySum ==
  (ThreadsDone /\ build \in {"openmp", "cuda_device"}) => EverySumComplete

\* two threads have finished and an increment of ffheatingestimator is lost
LostIncrement ==
  /\ ThreadsDone
  /\ estimators.ffheatingestimator <
        SumOver([t \in DOMAIN threads |-> ffheating_increment(threads[t])], Len(threads))

(***************************************************************************)
(* Boundary distance                                                       *)
(***************************************************************************)
Faces == {"max", "min"}

FaceCoord(c, f) == IF f = "max" THEN get_cellcoordmax(c) ELSE get_cellcoordmin(c)

\* time at which packet p crosses face f of its cell (c = 1, |dir| = 1)
CrossTime(p, f) == (FaceCoord(p.where, f) - p.pos) * p.dir

\* the face a packet entered through when it last crossed in direction lc
EntryFace(lc) == IF lc = "POS_X" THEN "min" ELSE IF lc = "NEG_X" THEN "max" ELSE "none"

\* the faces with a strictly positive crossing time, the entry face left out
Candidates(p, lc) == {f \in Faces : CrossTime(p, f) > 0 /\ f # EntryFace(lc)}

Nearest(p, lc) ==
  CHOOSE f \in Candidates(p, lc) : \A g \in Candidates(p, lc) : CrossTime(p, f) <= CrossTime(p, g)

\* the cell across face f of cell c, -99 beyond the outermost cells
Neighbour(c, f) ==
  IF f = "max" THEN (IF c = ncoordgrid - 1 THEN -99 ELSE c + 1)
               ELSE (IF c = 0 THEN -99 ELSE c - 1)

\* boundary_cross went through the loop over the faces
ReachedShortestTime == Step /\ h.r.bc.distance > 0

PretendedLastCross(p) ==
  IF p.pos > get_cellcoordmax(p.where) + BoundaryTolerance /\ p.last_cross # "NEG_X"
    THEN "NEG_X"
  ELSE IF p.pos < get_cellcoordmin(p.where) - BoundaryTolerance /\ p.last_cross # "POS_X"
    THEN "POS_X"
  ELSE p.last_cross

FoundBeyond(p, f) ==
  IF f = "max"
    THEN p.pos > get_cellcoordmax(p.where) + BoundaryTolerance /\ p.last_cross # "NEG_X"
    ELSE p.pos < get_cellcoordmin(p.where) - BoundaryTolerance /\ p.last_cross # "POS_X"

\* the sub-step moved the packet across face f without advancing it
SwappedAcross(f) ==
  /\ h.r.bc.distance = 0
  /\ h.r.bc.snext = Neighbour(h.pre.where, f)
  /\ h.r.branch = "swap"
  /\ pkt.pos = h.pre.pos
  /\ pkt.prop_time = h.pre.prop_time
  /\ IF h.r.bc.snext = -99 THEN pkt.type = "TYPE_ESCAPE" ELSE pkt.where = h.r.bc.snext

\* C24 as stated: whenever the packet lies beyond a face of its cell that is
\* not the one recorded by last_cross, boundary_cross returns distance 0 with
\* snext the neighbour across that face (-99 at the outer grid face) and the
\* stepper moves the packet there without advancing it, for the lower face
\* as well as for the upper face.
C24_OutsideFaceSwaps ==
  Step => \A f \in Faces : FoundBeyond(h.pre, f) => SwappedAcross(f)

\* a packet beyond a face is swapped exactly when it flies in the positive
\* direction: away from the cell at the upper face, towards it at the lower
SwapsOnlyFlyingUp ==
  Step => \A f \in Faces : FoundBeyond(h.pre, f) =>
             IF h.pre.dir > 0 THEN SwappedAcross(f) ELSE h.r.branch # "swap"

\* a packet below the lower face and flying away from the cell is not
\* swapped: no crossing time is found and the sub-step aborts
LowerFaceAbort ==
  /\ Step
  /\ FoundBeyond(h.pre, "min")
  /\ h.pre.dir < 0
  /\ h.r.bc.distance = CLIGHT_PROP * HugeTime
  /\ h.r.abort = "Unreasonably large sdist"

(***************************************************************************)
(* The max_path_step cap                                                   *)
(***************************************************************************)
\* the sub-step went past the checks of the boundary distance
ReachedCap(r) ==
  /\ r.branch # "swap"
  /\ r.abort \notin {"Unreasonably large sdist", "Heading for inappropriate grid cell"}

\* C25: when the distance returned by boundary_cross exceeds max_path_step
\* the sub-step uses sdist = max_path_step, and if the boundary then wins the
\* packet advances exactly max_path_step and stays an r-packet in its cell,
\* with no escape counted, even if boundary_cross had returned snext = -99.
C25_CappedStepStaysInCell ==
  (Step /\ ReachedCap(h.r) /\ h.r.bc.distance > max_path_step) =>
     /\ h.r.sdist = max_path_step
     /\ h.r.snext = h.pre.where
     /\ (h.r.branch = "boundary") =>
          /\ pkt.pos = h.pre.pos + h.pre.dir * max_path_step
          /\ pkt.prop_time = h.pre.prop_time + max_path_step
          /\ pkt.where = h.pre.where
          /\ pkt.type = "TYPE_RPKT"
          /\ nesc = h.pre_nesc

C25_Witness ==
  /\ Step /\ h.r.branch = "boundary"
  /\ h.r.bc.distance > max_path_step
  /\ h.r.bc.snext = -99
  /\ pkt.pos = h.pre.pos + h.pre.dir * max_path_step
  /\ pkt.where = h.pre.where
  /\ pkt.type = "TYPE_RPKT"

(***************************************************************************)
(* Frequency along a segment                                               *)
(***************************************************************************)
NonIncreasing(s) == \A i \in 1..(Len(s) - 1) : s[i] >= s[i + 1]

C26_ShadowMoved ==
  /\ Step /\ Len(h.r.get_event.moves) > 0
  /\ h.r.get_event.moves[Len(h.r.get_event.moves)] < h.pre.nu_cmf

(***************************************************************************)
(* The kappa_bf_sum array                                                  *)
(***************************************************************************)
\* the call of calculate_kappa_rpkt_cont went through
\* calculate_kappa_bf_gammacontr, which returned
BoundFreeReturned ==
  /\ KappaCalled
  /\ h.r.recalculated
  /\ globals.do_r_lc /\ globals.opacity_case = 4
  /\ h.r.abort \in {"none", "non-finite kappa_rpkt_cont.total"}

\* what continuum i (from 0) of cell mgi adds to the bound-free opacity at nu
Contribution(mgi, nu, i) ==
  LET ch == modelgrid[mgi].boundfree[i + 1]
  IN IF ch.present /\ ch.populated /\ nu >= allcont_nu_edge(i) THEN ch.contr ELSE 0

RECURSIVE ContributionsUpTo(_, _, _)
ContributionsUpTo(mgi, nu, i) ==
  IF i < 0 THEN 0 ELSE fadd(ContributionsUpTo(mgi, nu, i - 1), Contribution(mgi, nu, i))

\* an array no entry of which is a sum of contributions
Unwritten == [i \in 1..nbfcontinua |-> NaN]

\* C27: after calculate_kappa_bf_gammacontr returns, every entry of
\* kappa_bf_sum has been written in this call, the array is non-decreasing,
\* each entry is the sum of the contributions of the continua up to and
\* including its index, and the last entry is the returned opacity.
C27_KappaBfSumCumulative ==
  BoundFreeReturned =>
    LET mgi == mgi_of(h.pre.where)
        nu == h.pre.nu_cmf
        fresh == calculate_kappa_bf_gammacontr(mgi, nu, Unwritten)
    IN /\ \A i \in 1..nbfcontinua : phixslist[i] = ContributionsUpTo(mgi, nu, i - 1)
       /\ \A i \in 1..(nbfcontinua - 1) : phixslist[i] <= phixslist[i + 1]
       /\ fresh.kappa_bf_sum = phixslist
       /\ \A i \in 1..nbfcontinua : fresh.kappa_bf_sum[i] # NaN
       /\ fresh.value = phixslist[nbfcontinua]
       /\ (h.r.abort = "none" /\ isfinite(h.r.kappa.es + h.r.kappa.ff + phixslist[nbfcontinua])) =>
             kappa_rpkt_cont.bf = phixslist[nbfcontinua]

\* a call that stops at a continuum whose edge lies above the packet's
\* frequency and overwrites the sums an earlier call at a higher frequency left
C27_Witness ==
  /\ BoundFreeReturned
  /\ h.pre.nu_cmf < allcont_nu_edge(nbfcontinua - 1)
  /\ modelgrid[mgi_of(h.pre.where)].boundfree[nbfcontinua].present
  /\ h.sums[nbfcontinua] > phixslist[nbfcontinua]
  /\ phixslist[nbfcontinua] > 0
  /\ phixslist[1] < phixslist[nbfcontinua]

(***************************************************************************)
(* last_cross                                                              *)
(***************************************************************************)
\* the sub-step ended without a cell change: the end of the time step won,
\* or the boundary won after the distance was clamped to max_path_step
EndedInSameCell ==
  /\ Step
  /\ pkt.where = h.pre.where
  /\ \/ h.r.branch = "time"
     \/ h.r.branch = "boundary" /\ h.r.bc.distance > max_path_step

\* C28 as stated: a sub-step that ends without a cell change leaves
\* last_cross as it was before the sub-step; the call of boundary_cross at
\* its start has no lasting effect unless the packet crosses that face.
C28_LastCrossKeptWithoutCrossing ==
  EndedInSameCell => pkt.last_cross = h.pre.last_cross

\* what such a sub-step leaves in last_cross is what boundary_cross wrote
LastCrossIsWhatBoundaryCrossWrote ==
  EndedInSameCell => pkt.last_cross = h.r.bc.last_cross

\* the end of the time step won and last_cross names a face not crossed
LastCrossOverwritten ==
  /\ EndedInSameCell
  /\ h.r.branch = "time"
  /\ h.pre.last_cross = "NONE"
  /\ pkt.last_cross = "POS_X"
  /\ pkt.pos < get_cellcoordmax(pkt.where)

(***************************************************************************)
(* The cache read by update_estimators                                     *)
(***************************************************************************)
\* the calls of update_estimators of the sub-step that added to estimators
EstimatorUpdates ==
  {i \in 1..Len(h.r.update_estimators) : ~h.r.update_estimators[i].returned_early}

\* C29 as stated: whenever update_estimators adds to the estimators of a
\* non-empty cell mgi, the per-thread opacity cache it multiplies by was
\* computed for that cell (its modelgridindex equals mgi), in thick cells too.
C29_CacheOfSameCell ==
  Step => \A i \in EstimatorUpdates :
             h.r.update_estimators[i].kappa_modelgridindex = h.r.update_estimators[i].mgi

\* in a cell that is not thick the cache is the one get_event has just filled
CacheOfSameCellUnlessThick ==
  Step => \A i \in EstimatorUpdates :
             (modelgrid_thick(h.r.update_estimators[i].mgi) # 1) =>
                h.r.update_estimators[i].kappa_modelgridindex = h.r.update_estimators[i].mgi

\* a segment through the thick cell adds to its ffheatingestimator with the
\* ffheating opacity cached for the cell the packet came from
StaleCacheInThickCell ==
  /\ Step
  /\ EstimatorUpdates # {}
  /\ modelgrid_thick(h.r.update_estimators[1].mgi) = 1
  /\ h.r.update_estimators[1].kappa_modelgridindex \in 0..(get_npts_model - 1)
  /\ h.r.update_estimators[1].kappa_modelgridindex # h.r.update_estimators[1].mgi
  /\ h.r.update_estimators[1].ffheatingestimator > 0

(***************************************************************************)
(* Reads of closest_transition_empty                                       *)
(***************************************************************************)
\* C30 as stated: closest_transition_empty reads linelist only at indices in
\* [0, nlines - 1] and searches a range whose start is not beyond its end,
\* for every next_trans a sub-step can find on the packet, the sentinel
\* nlines + 1 and a frequency below the reddest line included.
C30_ReadsInsideLinelist ==
  Step => \A i \in 1..Len(h.r.cte) : ~h.r.cte[i].outofbounds /\ ~h.r.cte[i].badrange

\* the packet came with next_trans beyond the last line and linelist[left]
\* was read there
ReadBeyondLinelist ==
  /\ Step /\ h.r.cte # <<>>
  /\ h.r.cte[1].outofbounds
  /\ h.pre.next_trans > nlines - 1

\* lower_bound was run from linelist[nlines + 1] to linelist[nlines]
SearchedIllFormedRange ==
  /\ Step /\ h.r.cte # <<>>
  /\ h.r.cte[1].badrange

====
